---- MODULE Spec2Model ----
(***************************************************************************)
(* service.chronicle.scrobbler: the playback scrobble engine.              *)
(*                                                                         *)
(*   lib/progress_tracker.py  ProgressTracker (session state machine)      *)
(*   lib/monitor.py           ChronicleMonitor (callbacks + poll thread)   *)
(*   lib/media_info.py        MediaInfo (snapshot, payload)                *)
(*   lib/chronicle_client.py  ChronicleClient (the HTTP client)            *)
(*                                                                         *)
(* Units: times are whole seconds of time.monotonic(); percentages are     *)
(* tenths of a percent (45.1 % is 451), so 5.0 % is 50 and 80 % is 800.    *)
(*                                                                         *)
(* The specifications share the definitions of the tracker:               *)
(*   Spec         the monitor: the host thread delivering callbacks and    *)
(*                the poll thread, interleaved statement by statement,     *)
(*                with a clock that moves in steps of TimeStep;            *)
(*   LiveSpec     Spec with both threads scheduled and time passing;       *)
(*   LockSpec     LiveSpec with a lock that does not starve a waiter;      *)
(*   TrackerSpec  the ProgressTracker object driven method by method, at   *)
(*                instants one second apart around the floor and the poll  *)
(*                interval, and with a finer set of percentages;           *)
(*   ScenarioSpec one playback followed on one thread through a script of  *)
(*                snapshots;                                               *)
(*   PollSpec     the poll thread second by second, an iteration a step;   *)
(*   ClientSpec   ChronicleClient over URLs, keys and answers of the       *)
(*                server;                                                  *)
(*   InfoSpec     the derived properties of a MediaInfo over raw items.    *)
(***************************************************************************)
EXTENDS Integers, FiniteSets, Sequences, TLC

VARIABLES
    state,          \* ProgressTracker._state (NoState is None)
    last_scrobble,  \* ProgressTracker._last_scrobble
    cfg,            \* the addon settings read through ADDON.getSetting*
    client,         \* ChronicleMonitor._client: the URL and the key it was built with
    clock,          \* time.monotonic()
    lock,           \* ChronicleMonitor._lock: "" when free, else the holder
    stop_event,     \* ChronicleMonitor._stop_event
    pc,             \* per thread: the statement it is at
    caller,         \* per thread: where _send_update/_on_start/_on_stop return to
                    \* ("callback": a callback that returns next)
    media,          \* per thread: local `media` of _on_start/_send_update
    now,            \* per thread: local `now` of _send_update
    force,          \* per thread: parameter `force` of _send_update
    payload,        \* per thread: local `payload` of _send_update
    exc,            \* per thread: the exception in flight ("" when none); for the
                    \* poll thread, until its wait returns, the one it caught
    wake,           \* per thread: when its timed wait (wait/join) times out
    ret,            \* TrackerSpec, ScenarioSpec: the call just made and its result
    hist,           \* history: the reports recorded in this session, in order
    att             \* history, per thread: what its current attempt decided on

vars == <<state, last_scrobble, cfg, client, clock, lock, stop_event, pc, caller,
          media, now, force, payload, exc, wake, ret, hist, att>>

tracker  == <<state, last_scrobble>>
locals   == <<pc, caller, media, now, force, payload, exc>>

----------------------------------------------------------------------------
(* Program constants *)

MIN_INTERVAL == 15

_POLL_SLEEP == 5

SeekDelta == 50

DefaultPollInterval == 30

DefaultThreshold == 800

JoinTimeout == 20

(* Bounds of the model *)

MaxClock == 30

TimeStep == 15

MaxFlight == 15

MaxPollClock == 65

----------------------------------------------------------------------------
(* Values *)

\* the instants the tracker is called at in TrackerSpec
FineTimes == {0, 1, 10, 14, 15, 16, 29, 30, 31, 46}

Abs(x) == IF x < 0 THEN -x ELSE x

\* MediaInfo.get_current() returning None
None == [some |-> FALSE, media_type |-> "", title |-> "", percentage |-> 0,
         is_paused |-> FALSE]

MediaInfo(ty, ti, p, z) ==
    [some |-> TRUE, media_type |-> ty, title |-> ti, percentage |-> p,
     is_paused |-> z]

Percentages == {780, 820}

FinePercentages == {0, 400, 449, 450, 451, 820}

\* what the player may be playing when it is read: an episode (78 % or 82 %,
\* playing or paused), a movie, or an item of no known kind
Snapshots ==
    { MediaInfo("episode", "E", p, z) : p \in Percentages, z \in BOOLEAN }
    \cup { MediaInfo("movie", "M", 780, FALSE), MediaInfo("unknown", "U", 780, FALSE) }

FineSnapshots ==
    { MediaInfo("movie", "M", p, z) : p \in FinePercentages, z \in BOOLEAN }

\* ProgressTracker._state is None
NoState == [active |-> FALSE, media_type |-> "", title |-> "",
            last_percentage |-> 0, watched_sent |-> FALSE]

\* PlaybackState(...) as start_session builds it
PlaybackState(m) ==
    [active |-> TRUE, media_type |-> m.media_type, title |-> m.title,
     last_percentage |-> 0, watched_sent |-> FALSE]

\* a setting is the empty string (<<>>) or a number (<<n>>)
\* Spec: the defaults, with movies switched off
Settings ==
    [poll_interval : {<<>>},
     watched_threshold : {<<>>},
     scrobble_movies : {FALSE},
     scrobble_tv : {TRUE},
     scrobble_music : {FALSE},
     chronicle_url : {<<"scheme://host", "/">>},
     api_key : {"key"}]

FineSettings ==
    [poll_interval : {<<>>, <<10>>},
     watched_threshold : {<<>>, <<400>>},
     scrobble_movies : {TRUE},
     scrobble_tv : {TRUE},
     scrobble_music : {TRUE},
     chronicle_url : {<<"scheme://host", "/">>},
     api_key : {"key"}]

\* float(ADDON.getSetting('poll_interval') or 30)
poll_interval(c) ==
    IF c.poll_interval = <<>> THEN DefaultPollInterval ELSE c.poll_interval[1]

\* the watched threshold fixed at 80 whatever the setting says
threshold_fixed(c) == DefaultThreshold

\* float(ADDON.getSetting('watched_threshold') or 80)
threshold(c) ==
    IF c.watched_threshold = <<>> THEN DefaultThreshold ELSE c.watched_threshold[1]

----------------------------------------------------------------------------
(* ProgressTracker: the methods as functions of the object's fields *)

has_session(st) == st.active

start_session_state(m) == PlaybackState(m)

\* start_session keeping the previous session's _last_scrobble
start_session_last_kept == last_scrobble

start_session_last == 0

end_session_state == NoState

\* should_scrobble without its "if media_info.is_paused" test
should_scrobble_rule_unpaused(st, last, m, t, c) ==
    IF ~st.active THEN "no_session"
    ELSE LET elapsed == t - last IN
         IF elapsed < MIN_INTERVAL THEN "floor"
         ELSE IF elapsed >= poll_interval(c) THEN "interval"
         ELSE IF Abs(m.percentage - st.last_percentage) >= SeekDelta THEN "seek"
         ELSE IF ~st.watched_sent /\ m.percentage >= threshold(c) THEN "threshold"
         ELSE "none"

\* should_scrobble testing the timed interval before the hard floor
should_scrobble_rule_interval_first(st, last, m, t, c) ==
    IF ~st.active THEN "no_session"
    ELSE IF m.is_paused THEN "paused"
    ELSE LET elapsed == t - last IN
         IF elapsed >= poll_interval(c) THEN "interval"
         ELSE IF elapsed < MIN_INTERVAL THEN "floor"
         ELSE IF Abs(m.percentage - st.last_percentage) >= SeekDelta THEN "seek"
         ELSE IF ~st.watched_sent /\ m.percentage >= threshold(c) THEN "threshold"
         ELSE "none"

\* should_scrobble with "progress_delta > 5.0"
should_scrobble_rule_strict_seek(st, last, m, t, c) ==
    IF ~st.active THEN "no_session"
    ELSE IF m.is_paused THEN "paused"
    ELSE LET elapsed == t - last IN
         IF elapsed < MIN_INTERVAL THEN "floor"
         ELSE IF elapsed >= poll_interval(c) THEN "interval"
         ELSE IF Abs(m.percentage - st.last_percentage) > SeekDelta THEN "seek"
         ELSE IF ~st.watched_sent /\ m.percentage >= threshold(c) THEN "threshold"
         ELSE "none"

\* should_scrobble, as the return statement it leaves by: "no_session" (line 83),
\* "paused" (85), "floor" (94), "interval" (99), "seek" (104), "threshold" (109),
\* "none" (111)
should_scrobble_rule(st, last, m, t, c) ==
    IF ~st.active THEN "no_session"
    ELSE IF m.is_paused THEN "paused"
    ELSE LET elapsed == t - last IN
         IF elapsed < MIN_INTERVAL THEN "floor"
         ELSE IF elapsed >= poll_interval(c) THEN "interval"
         ELSE IF Abs(m.percentage - st.last_percentage) >= SeekDelta THEN "seek"
         ELSE IF ~st.watched_sent /\ m.percentage >= threshold(c) THEN "threshold"
         ELSE "none"

should_scrobble(st, last, m, t, c) ==
    should_scrobble_rule(st, last, m, t, c) \in {"interval", "seek", "threshold"}

\* record_scrobble assigning watched_sent = (percentage >= threshold)
record_scrobble_state_reassigns(st, m, c) ==
    IF ~st.active THEN st
    ELSE [st EXCEPT !.watched_sent = (m.percentage >= threshold(c)),
                    !.last_percentage = m.percentage]

record_scrobble_state(st, m, c) ==
    IF ~st.active THEN st
    ELSE [st EXCEPT !.watched_sent = IF m.percentage >= threshold(c) THEN TRUE ELSE @,
                    !.last_percentage = m.percentage]

\* record_scrobble without its "if self._state is None: return"
record_scrobble_last_unguarded(st, last, t) == t

record_scrobble_last(st, last, t) ==
    IF ~st.active THEN last ELSE t

----------------------------------------------------------------------------
(* MediaInfo and the monitor's helpers *)

\* `payload` before line 147 has assigned it
Unbound == [bound |-> FALSE, mediaType |-> "", title |-> "", progress |-> 0,
            episode_fields |-> FALSE]

to_scrobble_payload(m) ==
    [bound |-> TRUE, mediaType |-> m.media_type, title |-> m.title,
     progress |-> m.percentage, episode_fields |-> (m.media_type = "episode")]

\* str.rstrip('/') on a URL given as its parts: "scheme://host" or "host",
\* then path separators
rstrip(u) ==
    LET n == CHOOSE k \in 0..Len(u) :
                 /\ \A i \in (k + 1)..Len(u) : u[i] = "/"
                 /\ k > 0 => u[k] # "/"
    IN SubSeq(u, 1, n)

\* ChronicleClient(): the URL and the key are read from the settings once
ChronicleClient(c) ==
    [base_url |-> rstrip(c.chronicle_url), api_key |-> c.api_key]

\* what urlopen does with the request: a response with a status, an
\* HTTPError with a code, or another error (URLError, timeout)
Responses ==
    { [kind |-> "response", code |-> n] : n \in {200, 201, 202, 204} }
    \cup { [kind |-> "HTTPError", code |-> n] : n \in {401, 500} }
    \cup { [kind |-> "URLError", code |-> 0] }

\* ChronicleClient.scrobble: "True", "False", or the ValueError that
\* urllib.request.Request raises at line 65 for a URL without a scheme
scrobble(cl, p, r) ==
    IF cl.base_url = <<>> \/ cl.api_key = "" THEN "False"
    ELSE IF cl.base_url[1] # "scheme://host" THEN "ValueError"
    ELSE IF r.kind = "response" THEN (IF r.code \in {200, 201, 204} THEN "True" ELSE "False")
    ELSE "False"

_should_scrobble_type(media_type, c) ==
    IF media_type = "movie" THEN c.scrobble_movies
    ELSE IF media_type = "episode" THEN c.scrobble_tv
    ELSE IF media_type = "track" THEN c.scrobble_music
    ELSE FALSE

Threads == {"host", "poller"}

\* what an attempt leaves in `att`: the rule it was decided by ("force" for a
\* forced one), the tracker's fields and the reports recorded when it decided,
\* whether the session has been ended or replaced since, what the Sink
\* answered ("called" while in flight, "ok", "failed") and what record_scrobble
\* did ("recorded", or "noop" without a session)
NoAttempt == [decided |-> FALSE, rule |-> "", base |-> <<NoState, 0>>, seen |-> <<>>,
              stale |-> FALSE, sink |-> "", recorded |-> ""]

\* no call has just been made
NoRet == [op |-> "", media |-> None, rule |-> "", before |-> <<NoState, 0>>]

\* an entry of `hist`: the `now` recorded and the rule the report was decided by
Report(t, r) == [now |-> t, rule |-> r]

Set(f, t, v) == [f EXCEPT ![t] = v]

\* every attempt in flight learns that the session it decided on is gone
Stale(a) == [t \in Threads |-> IF a[t].decided THEN [a[t] EXCEPT !.stale = TRUE] ELSE a[t]]

\* what a call leaves in `ret`: the method, its snapshot, the return statement
\* of should_scrobble it went by, and the tracker's fields when it was made
Ret(op, m, r) == [op |-> op, media |-> m, rule |-> r, before |-> <<state, last_scrobble>>]

----------------------------------------------------------------------------
(* ChronicleMonitor: the host thread (run() and the callbacks the host      *)
(* delivers while run() waits) and the poll thread, one action per          *)
(* statement that touches shared state or calls a collaborator.             *)

Init ==
    /\ state = NoState
    /\ last_scrobble = 0
    /\ cfg \in Settings
    /\ client = ChronicleClient(cfg)
    /\ clock = 0
    /\ lock = ""
    /\ stop_event = FALSE
    /\ pc = [t \in Threads |-> IF t = "host" THEN "run" ELSE "unstarted"]
    /\ caller = [t \in Threads |-> ""]
    /\ media = [t \in Threads |-> None]
    /\ now = [t \in Threads |-> 0]
    /\ force = [t \in Threads |-> FALSE]
    /\ payload = [t \in Threads |-> Unbound]
    /\ exc = [t \in Threads |-> ""]
    /\ wake = [t \in Threads |-> 0]
    /\ ret = NoRet
    /\ hist = <<>>
    /\ att = [t \in Threads |-> NoAttempt]

\* a callback begins: the host thread was waiting in run()'s waitForAbort
Deliver(name, first, forced) ==
    /\ pc["host"] = "idle"
    /\ pc' = Set(pc, "host", first)
    /\ caller' = Set(caller, "host", name)
    /\ force' = Set(force, "host", forced)
    /\ UNCHANGED <<state, last_scrobble, cfg, client, clock, lock, stop_event, media, now,
                   payload, exc, wake, ret, hist, att>>

onPlayBackStarted == Deliver("callback", "os_read", FALSE)

onAVStarted == Deliver("callback", "os_read", FALSE)

\* onPlayBackPaused ending the session as a stop does
onPlayBackPaused_stops == Deliver("onPlayBackPaused", "stop_lock", FALSE)

onPlayBackPaused == Deliver("onPlayBackPaused", "cb_return", FALSE)

onPlayBackResumed == Deliver("callback", "su_read", FALSE)

onPlayBackStopped == Deliver("callback", "stop_lock", FALSE)

onPlayBackEnded == Deliver("onPlayBackEnded", "su_read", TRUE)

onPlayBackSeek == Deliver("callback", "su_read", FALSE)

onPlayBackError == Deliver("callback", "stop_lock", FALSE)

onSettingsChanged == Deliver("callback", "sc_lock", FALSE)

\* the callback returns (or its exception has left it): back to waitForAbort
CallbackReturn ==
    /\ pc["host"] = "cb_return"
    /\ pc' = Set(pc, "host", "idle")
    /\ caller' = Set(caller, "host", "")
    /\ force' = Set(force, "host", FALSE)
    /\ exc' = Set(exc, "host", "")
    /\ media' = Set(media, "host", None)
    /\ UNCHANGED <<state, last_scrobble, cfg, client, clock, lock, stop_event, now,
                   payload, wake, ret, hist, att>>

\* onSettingsChanged: with self._lock: self._client = ChronicleClient()
SettingsLock ==
    /\ pc["host"] = "sc_lock"
    /\ lock = ""
    /\ lock' = "host"
    /\ pc' = Set(pc, "host", "sc_client")
    /\ UNCHANGED <<state, last_scrobble, cfg, client, clock, stop_event, caller, media, now,
                   force, payload, exc, wake, ret, hist, att>>

SettingsClient ==
    /\ pc["host"] = "sc_client"
    /\ lock' = ""
    /\ client' = ChronicleClient(cfg)
    /\ pc' = Set(pc, "host", "cb_return")
    /\ UNCHANGED <<state, last_scrobble, cfg, clock, stop_event, caller, media, now,
                   force, payload, exc, wake, ret, hist, att>>

\* _on_start without its tests of the kind (lines 118-123)
OnStartRead_any_kind(t) ==
    /\ pc[t] = "os_read"
    /\ \/ \E m \in Snapshots \cup {None} :
            IF m = None
            THEN /\ pc' = Set(pc, t, "cb_return")
                 /\ media' = Set(media, t, m)
                 /\ UNCHANGED exc
            ELSE /\ pc' = Set(pc, t, "os_lock")
                 /\ media' = Set(media, t, m)
                 /\ UNCHANGED exc
       \/ /\ pc' = Set(pc, t, "raise")
          /\ exc' = Set(exc, t, "ReaderError")
          /\ UNCHANGED media
    /\ UNCHANGED <<state, last_scrobble, cfg, client, clock, lock, stop_event, caller, now,
                   force, payload, wake, ret, hist, att>>

\* _on_start, lines 115-123: read the player, leave early unless the item is of
\* a recognised, enabled kind
OnStartRead(t) ==
    /\ pc[t] = "os_read"
    /\ \/ \E m \in Snapshots \cup {None} :
            IF m = None \/ m.media_type = "unknown"
                        \/ ~_should_scrobble_type(m.media_type, cfg)
            THEN /\ pc' = Set(pc, t, "cb_return")
                 /\ media' = Set(media, t, m)
                 /\ UNCHANGED exc
            ELSE /\ pc' = Set(pc, t, "os_lock")
                 /\ media' = Set(media, t, m)
                 /\ UNCHANGED exc
       \/ \* the JSON-RPC call or its parsing raises
          /\ pc' = Set(pc, t, "raise")
          /\ exc' = Set(exc, t, "ReaderError")
          /\ UNCHANGED media
    /\ UNCHANGED <<state, last_scrobble, cfg, client, clock, lock, stop_event, caller, now,
                   force, payload, wake, ret, hist, att>>

\* _on_start, line 125: with self._lock
OnStartLock(t) ==
    /\ pc[t] = "os_lock"
    /\ lock = ""
    /\ lock' = t
    /\ pc' = Set(pc, t, "os_start")
    /\ UNCHANGED <<state, last_scrobble, cfg, client, clock, stop_event, caller, media, now,
                   force, payload, exc, wake, ret, hist, att>>

\* _on_start, lines 126-129: start_session under the lock, then _send_update()
OnStartSession(t) ==
    /\ pc[t] = "os_start"
    /\ state' = start_session_state(media[t])
    /\ last_scrobble' = start_session_last
    /\ lock' = ""
    /\ hist' = <<>>
    /\ att' = Stale(att)
    /\ pc' = Set(pc, t, "su_read")
    /\ caller' = Set(caller, t, "_on_start")
    /\ media' = Set(media, t, None)
    /\ UNCHANGED <<cfg, client, clock, stop_event, now, force, payload, exc, wake, ret>>

\* _on_stop, line 133: with self._lock
OnStopLock(t) ==
    /\ pc[t] = "stop_lock"
    /\ lock = ""
    /\ lock' = t
    /\ pc' = Set(pc, t, "stop_end")
    /\ UNCHANGED <<state, last_scrobble, cfg, client, clock, stop_event, caller, media, now,
                   force, payload, exc, wake, ret, hist, att>>

\* _on_stop, line 134: end_session under the lock
OnStopSession(t) ==
    /\ pc[t] = "stop_end"
    /\ state' = end_session_state
    /\ lock' = ""
    /\ hist' = <<>>
    /\ att' = Stale(att)
    /\ pc' = Set(pc, t, "cb_return")
    /\ UNCHANGED <<last_scrobble, cfg, client, clock, stop_event, caller, media, now, force,
                   payload, exc, wake, ret>>

\* _send_update, lines 138-142: read the player, then the clock
SendUpdateRead(t) ==
    /\ pc[t] = "su_read"
    /\ \/ \E m \in Snapshots \cup {None} :
            IF m = None
            THEN /\ pc' = Set(pc, t, "su_return")
                 /\ UNCHANGED <<media, now, exc>>
            ELSE /\ pc' = Set(pc, t, "su_lock")
                 /\ media' = Set(media, t, m)
                 /\ now' = Set(now, t, clock)
                 /\ UNCHANGED exc
       \/ /\ pc' = Set(pc, t, "raise")
          /\ exc' = Set(exc, t, "ReaderError")
          /\ UNCHANGED <<media, now>>
    /\ UNCHANGED <<state, last_scrobble, cfg, client, clock, lock, stop_event, caller, force,
                   payload, wake, ret, hist, att>>

\* _send_update, line 143: with self._lock
SendUpdateLock(t) ==
    /\ pc[t] = "su_lock"
    /\ lock = ""
    /\ lock' = t
    /\ pc' = Set(pc, t, "su_decide")
    /\ UNCHANGED <<state, last_scrobble, cfg, client, clock, stop_event, caller, media, now,
                   force, payload, exc, wake, ret, hist, att>>

\* _send_update testing has_session only when the attempt is not forced
SendUpdateDecide_without_session_test(t) ==
    /\ pc[t] = "su_decide"
    /\ lock' = ""
    /\ IF ~has_session(state) /\ ~force[t]
       THEN /\ pc' = Set(pc, t, "su_return")
            /\ UNCHANGED <<payload, att>>
       ELSE IF force[t] \/ should_scrobble(state, last_scrobble, media[t], now[t], cfg)
       THEN /\ payload' = Set(payload, t, to_scrobble_payload(media[t]))
            /\ att' = Set(att, t, [NoAttempt EXCEPT
                         !.decided = TRUE,
                         !.rule = IF force[t] THEN "force"
                                  ELSE should_scrobble_rule(state, last_scrobble,
                                                            media[t], now[t], cfg),
                         !.base = <<state, last_scrobble>>,
                         !.seen = hist])
            /\ pc' = Set(pc, t, "su_call")
       ELSE /\ pc' = Set(pc, t, "su_call")
            /\ UNCHANGED <<payload, att>>
    /\ UNCHANGED <<state, last_scrobble, cfg, client, clock, stop_event, caller, media, now,
                   force, exc, wake, ret, hist>>

\* _send_update returning without a session with the lock still held
SendUpdateDecide_returns_locked(t) ==
    /\ pc[t] = "su_decide"
    /\ lock' = IF has_session(state) THEN "" ELSE t
    /\ IF ~has_session(state)
       THEN /\ pc' = Set(pc, t, "su_return")
            /\ UNCHANGED <<payload, att>>
       ELSE IF force[t] \/ should_scrobble(state, last_scrobble, media[t], now[t], cfg)
       THEN /\ payload' = Set(payload, t, to_scrobble_payload(media[t]))
            /\ att' = Set(att, t, [NoAttempt EXCEPT
                         !.decided = TRUE,
                         !.rule = IF force[t] THEN "force"
                                  ELSE should_scrobble_rule(state, last_scrobble,
                                                            media[t], now[t], cfg),
                         !.base = <<state, last_scrobble>>,
                         !.seen = hist])
            /\ pc' = Set(pc, t, "su_call")
       ELSE /\ pc' = Set(pc, t, "su_call")
            /\ UNCHANGED <<payload, att>>
    /\ UNCHANGED <<state, last_scrobble, cfg, client, clock, stop_event, caller, media, now,
                   force, exc, wake, ret, hist>>

\* _send_update calling the Sink inside its first "with self._lock"
SendUpdateDecide_keeps_lock(t) ==
    /\ pc[t] = "su_decide"
    /\ lock' = IF has_session(state)
                   /\ (force[t] \/ should_scrobble(state, last_scrobble, media[t], now[t], cfg))
               THEN t ELSE ""
    /\ IF ~has_session(state)
       THEN /\ pc' = Set(pc, t, "su_return")
            /\ UNCHANGED <<payload, att>>
       ELSE IF force[t] \/ should_scrobble(state, last_scrobble, media[t], now[t], cfg)
       THEN /\ payload' = Set(payload, t, to_scrobble_payload(media[t]))
            /\ att' = Set(att, t, [NoAttempt EXCEPT
                         !.decided = TRUE,
                         !.rule = IF force[t] THEN "force"
                                  ELSE should_scrobble_rule(state, last_scrobble,
                                                            media[t], now[t], cfg),
                         !.base = <<state, last_scrobble>>,
                         !.seen = hist])
            /\ pc' = Set(pc, t, "su_call")
       ELSE /\ pc' = Set(pc, t, "su_call")
            /\ UNCHANGED <<payload, att>>
    /\ UNCHANGED <<state, last_scrobble, cfg, client, clock, stop_event, caller, media, now,
                   force, exc, wake, ret, hist>>

\* _send_update, lines 144-147: under the lock, return if there is no session,
\* else bind `payload` if forced or due; the lock is released on the way out
SendUpdateDecide(t) ==
    /\ pc[t] = "su_decide"
    /\ lock' = ""
    /\ IF ~has_session(state)
       THEN /\ pc' = Set(pc, t, "su_return")
            /\ UNCHANGED <<payload, att>>
       ELSE IF force[t] \/ should_scrobble(state, last_scrobble, media[t], now[t], cfg)
       THEN /\ payload' = Set(payload, t, to_scrobble_payload(media[t]))
            /\ att' = Set(att, t, [NoAttempt EXCEPT
                         !.decided = TRUE,
                         !.rule = IF force[t] THEN "force"
                                  ELSE should_scrobble_rule(state, last_scrobble,
                                                            media[t], now[t], cfg),
                         !.base = <<state, last_scrobble>>,
                         !.seen = hist])
            /\ pc' = Set(pc, t, "su_call")
       ELSE /\ pc' = Set(pc, t, "su_call")
            /\ UNCHANGED <<payload, att>>
    /\ UNCHANGED <<state, last_scrobble, cfg, client, clock, stop_event, caller, media, now,
                   force, exc, wake, ret, hist>>

\* _send_update, line 150, outside the lock: evaluating the argument `payload`
\* raises when line 147 did not run; otherwise the Sink is called
SendUpdateCall(t) ==
    /\ pc[t] = "su_call"
    /\ IF payload[t].bound
       THEN /\ pc' = Set(pc, t, "su_sink")
            /\ att' = Set(att, t, [att[t] EXCEPT !.sink = "called"])
            /\ UNCHANGED exc
       ELSE /\ pc' = Set(pc, t, "raise")
            /\ exc' = Set(exc, t, "UnboundLocalError")
            /\ UNCHANGED att
    /\ UNCHANGED <<state, last_scrobble, cfg, client, clock, lock, stop_event, caller, media,
                   now, force, payload, wake, ret, hist>>

\* _send_update without its "if ok" test: the report is recorded either way
SinkReturns_recorded_anyway(t) ==
    /\ pc[t] = "su_sink"
    /\ \E r \in Responses :
          LET ok == scrobble(client, payload[t], r) = "True" IN
          /\ pc' = Set(pc, t, "su_relock")
          /\ att' = Set(att, t, [att[t] EXCEPT !.sink = IF ok THEN "ok" ELSE "failed"])
    /\ UNCHANGED <<state, last_scrobble, cfg, client, clock, lock, stop_event, caller, media,
                   now, force, payload, exc, wake, ret, hist>>

\* ChronicleClient.scrobble returns True or False, or raises (lines 150-151)
SinkReturns(t) ==
    /\ pc[t] = "su_sink"
    /\ \E r \in Responses :
          LET res == scrobble(client, payload[t], r) IN
          IF res = "ValueError"
          THEN /\ pc' = Set(pc, t, "raise")
               /\ exc' = Set(exc, t, "ValueError")
               /\ UNCHANGED att
          ELSE /\ pc' = Set(pc, t, IF res = "True" THEN "su_relock" ELSE "su_return")
               /\ att' = Set(att, t, [att[t] EXCEPT
                            !.sink = IF res = "True" THEN "ok" ELSE "failed"])
               /\ UNCHANGED exc
    /\ UNCHANGED <<state, last_scrobble, cfg, client, clock, lock, stop_event, caller, media,
                   now, force, payload, wake, ret, hist>>

\* _send_update calling record_scrobble without "with self._lock"
SendUpdateRelock_no_lock(t) ==
    /\ pc[t] = "su_relock"
    /\ pc' = Set(pc, t, "su_record")
    /\ UNCHANGED <<state, last_scrobble, cfg, client, clock, lock, stop_event, caller, media,
                   now, force, payload, exc, wake, ret, hist, att>>

\* _send_update, line 152: with self._lock
SendUpdateRelock(t) ==
    /\ pc[t] = "su_relock"
    /\ lock = ""
    /\ lock' = t
    /\ pc' = Set(pc, t, "su_record")
    /\ UNCHANGED <<state, last_scrobble, cfg, client, clock, stop_event, caller, media, now,
                   force, payload, exc, wake, ret, hist, att>>

\* _send_update, line 153: record_scrobble(media, now) under the lock
SendUpdateRecord(t) ==
    /\ pc[t] = "su_record"
    /\ state' = record_scrobble_state(state, media[t], cfg)
    /\ last_scrobble' = record_scrobble_last(state, last_scrobble, now[t])
    /\ lock' = ""
    /\ hist' = IF state.active THEN Append(hist, Report(now[t], att[t].rule)) ELSE hist
    /\ att' = Set(att, t, [att[t] EXCEPT
                 !.recorded = IF state.active THEN "recorded" ELSE "noop"])
    /\ pc' = Set(pc, t, "su_return")
    /\ UNCHANGED <<cfg, client, clock, stop_event, caller, media, now, force, payload, exc,
                   wake, ret>>

\* _send_update returns to its caller: onPlayBackEnded goes on to _on_stop
\* (line 80), _poll_loop to its wait (line 172), _on_start and the other
\* callbacks return
SendUpdateReturn(t) ==
    /\ pc[t] = "su_return"
    /\ pc' = Set(pc, t, IF caller[t] = "onPlayBackEnded" THEN "stop_lock"
                        ELSE IF caller[t] = "_poll_loop" THEN "sleep"
                        ELSE "cb_return")
    /\ wake' = IF caller[t] = "_poll_loop" THEN Set(wake, t, clock + _POLL_SLEEP)
               ELSE wake
    /\ media' = Set(media, t, None)
    /\ now' = Set(now, t, 0)
    /\ payload' = Set(payload, t, Unbound)
    /\ att' = Set(att, t, NoAttempt)
    /\ UNCHANGED <<state, last_scrobble, cfg, client, clock, lock, stop_event, caller, force,
                   exc, ret, hist>>

\* _poll_loop without its try/except: the exception ends the poll thread
Raise_uncaught(t) ==
    /\ pc[t] = "raise"
    /\ pc' = Set(pc, t, IF caller[t] = "_poll_loop" THEN "stopped" ELSE "cb_return")
    /\ media' = Set(media, t, None)
    /\ now' = Set(now, t, 0)
    /\ payload' = Set(payload, t, Unbound)
    /\ att' = Set(att, t, NoAttempt)
    /\ UNCHANGED <<state, last_scrobble, cfg, client, clock, lock, stop_event, caller, force,
                   exc, wake, ret, hist>>

\* an exception leaves _send_update or _on_start: a callback is abandoned as
\* it stands; _poll_loop catches and logs it (lines 170-171) and goes on to
\* its wait
Raise(t) ==
    /\ pc[t] = "raise"
    /\ pc' = Set(pc, t, IF caller[t] = "_poll_loop" THEN "sleep" ELSE "cb_return")
    /\ wake' = IF caller[t] = "_poll_loop" THEN Set(wake, t, clock + _POLL_SLEEP)
               ELSE wake
    /\ media' = Set(media, t, None)
    /\ now' = Set(now, t, 0)
    /\ payload' = Set(payload, t, Unbound)
    /\ att' = Set(att, t, NoAttempt)
    /\ UNCHANGED <<state, last_scrobble, cfg, client, clock, lock, stop_event, caller, force,
                   exc, ret, hist>>

\* run(), lines 100-101 and _start_poll_thread: the poll thread is started
RunStart ==
    /\ pc["host"] = "run"
    /\ stop_event' = FALSE
    /\ pc' = [pc EXCEPT !["host"] = "idle", !["poller"] = "loop"]
    /\ caller' = Set(caller, "poller", "_poll_loop")
    /\ UNCHANGED <<state, last_scrobble, cfg, client, clock, lock, media, now, force, payload,
                   exc, wake, ret, hist, att>>

\* run(), lines 103-109: abort requested; set the stop event and join
RunAbort ==
    /\ pc["host"] = "idle"
    /\ stop_event' = TRUE
    /\ pc' = Set(pc, "host", "join")
    /\ wake' = Set(wake, "host", clock + JoinTimeout)
    /\ UNCHANGED <<state, last_scrobble, cfg, client, clock, lock, caller, media, now, force,
                   payload, exc, ret, hist, att>>

\* join(timeout=20) returns: the poll thread has ended, or the timeout has passed
RunJoin ==
    /\ pc["host"] = "join"
    /\ pc["poller"] = "stopped" \/ clock >= wake["host"]
    /\ pc' = Set(pc, "host", "exited")
    /\ wake' = Set(wake, "host", 0)
    /\ UNCHANGED <<state, last_scrobble, cfg, client, clock, lock, stop_event, caller, media,
                   now, force, payload, exc, ret, hist, att>>

\* _poll_loop as "while True": the stop event is not looked at
PollLoop_forever ==
    /\ pc["poller"] = "loop"
    /\ pc' = Set(pc, "poller", "su_read")
    /\ UNCHANGED <<state, last_scrobble, cfg, client, clock, lock, stop_event, caller, media,
                   now, force, payload, exc, wake, ret, hist, att>>

\* _poll_loop, lines 167-169: leave the loop if the stop event is set, else
\* call _send_update()
PollLoop ==
    /\ pc["poller"] = "loop"
    /\ pc' = Set(pc, "poller", IF stop_event THEN "stopped" ELSE "su_read")
    /\ UNCHANGED <<state, last_scrobble, cfg, client, clock, lock, stop_event, caller, media,
                   now, force, payload, exc, wake, ret, hist, att>>

\* _poll_loop, line 172: self._stop_event.wait(_POLL_SLEEP) returns
PollWait ==
    /\ pc["poller"] = "sleep"
    /\ stop_event \/ clock >= wake["poller"]
    /\ pc' = Set(pc, "poller", "loop")
    /\ wake' = Set(wake, "poller", 0)
    /\ exc' = Set(exc, "poller", "")
    /\ UNCHANGED <<state, last_scrobble, cfg, client, clock, lock, stop_event, caller, media,
                   now, force, payload, ret, hist, att>>

InFlight(t) == pc[t] \in {"su_lock", "su_decide", "su_call", "su_sink", "su_relock",
                           "su_record"}

\* time passes; an attempt (the Sink's timeout included) is over in MaxFlight
Advance ==
    /\ clock + TimeStep <= MaxClock
    /\ \A t \in Threads : InFlight(t) => clock + TimeStep - now[t] <= MaxFlight
    /\ clock' = clock + TimeStep
    /\ UNCHANGED <<state, last_scrobble, cfg, client, lock, stop_event, pc, caller, media,
                   now, force, payload, exc, wake, ret, hist, att>>

Next ==
    \/ RunStart \/ RunAbort \/ RunJoin
    \/ onPlayBackStarted \/ onAVStarted \/ onPlayBackPaused \/ onPlayBackResumed
    \/ onPlayBackStopped \/ onPlayBackEnded \/ onPlayBackSeek \/ onPlayBackError
    \/ onSettingsChanged \/ SettingsLock \/ SettingsClient \/ CallbackReturn
    \/ PollLoop \/ PollWait
    \/ \E t \in Threads :
          \/ OnStartRead(t) \/ OnStartLock(t) \/ OnStartSession(t)
          \/ OnStopLock(t) \/ OnStopSession(t)
          \/ SendUpdateRead(t) \/ SendUpdateLock(t) \/ SendUpdateDecide(t)
          \/ SendUpdateCall(t) \/ SinkReturns(t) \/ SendUpdateRelock(t)
          \/ SendUpdateRecord(t) \/ SendUpdateReturn(t) \/ Raise(t)
    \/ Advance

Spec == Init /\ [][Next]_vars

\* the statements of the poll thread
PollerNext ==
    \/ PollLoop \/ PollWait
    \/ SendUpdateRead("poller") \/ SendUpdateLock("poller") \/ SendUpdateDecide("poller")
    \/ SendUpdateCall("poller") \/ SinkReturns("poller") \/ SendUpdateRelock("poller")
    \/ SendUpdateRecord("poller") \/ SendUpdateReturn("poller") \/ Raise("poller")

\* the statements of the host thread inside run() or a callback (when a
\* callback is delivered, and when abort is requested, is up to the host)
HostNext ==
    \/ RunStart \/ RunJoin \/ SettingsLock \/ SettingsClient \/ CallbackReturn
    \/ OnStartRead("host") \/ OnStartLock("host") \/ OnStartSession("host")
    \/ OnStopLock("host") \/ OnStopSession("host")
    \/ SendUpdateRead("host") \/ SendUpdateLock("host") \/ SendUpdateDecide("host")
    \/ SendUpdateCall("host") \/ SinkReturns("host") \/ SendUpdateRelock("host")
    \/ SendUpdateRecord("host") \/ SendUpdateReturn("host") \/ Raise("host")

\* LiveSpec: the monitor with both threads scheduled (a thread that can take
\* its next statement eventually does; the Sink's request has a timeout) and
\* time passing
LiveSpec == Spec /\ WF_vars(PollerNext) /\ WF_vars(HostNext) /\ WF_vars(Advance)

\* thread t enters a "with self._lock" block
Acquire(t) ==
    \/ SendUpdateLock(t) \/ SendUpdateRelock(t) \/ OnStartLock(t) \/ OnStopLock(t)
    \/ (t = "host" /\ SettingsLock)

\* LockSpec: LiveSpec with a lock that does not starve a thread: one that
\* finds the lock free again and again while it waits gets it
LockSpec == LiveSpec /\ \A t \in Threads : SF_vars(Acquire(t))

----------------------------------------------------------------------------
(* TrackerSpec: a ProgressTracker driven method by method by one caller.   *)
(* `ret` holds the call just made; record_scrobble is called, as the       *)
(* monitor calls it, for a snapshot and a `now` that should_scrobble has   *)
(* just found due.                                                         *)

TrackerInit ==
    /\ state = NoState
    /\ last_scrobble = 0
    /\ cfg \in FineSettings
    /\ client = ChronicleClient(cfg)
    /\ clock = 0
    /\ lock = ""
    /\ stop_event = FALSE
    /\ pc = [t \in Threads |-> "idle"]
    /\ caller = [t \in Threads |-> ""]
    /\ media = [t \in Threads |-> None]
    /\ now = [t \in Threads |-> 0]
    /\ force = [t \in Threads |-> FALSE]
    /\ payload = [t \in Threads |-> Unbound]
    /\ exc = [t \in Threads |-> ""]
    /\ wake = [t \in Threads |-> 0]
    /\ ret = NoRet
    /\ hist = <<>>
    /\ att = [t \in Threads |-> NoAttempt]

monitor_vars == <<lock, stop_event, pc, caller, media, now, force, payload, exc,
                  wake, att>>

Call_start_session ==
    \E m \in FineSnapshots :
        /\ state' = start_session_state(m)
        /\ last_scrobble' = start_session_last
        /\ ret' = Ret("start_session", m, "")
        /\ hist' = <<>>
        /\ UNCHANGED <<cfg, client, clock, monitor_vars>>

\* end_session also stamping the time of the end into _last_scrobble
Call_end_session_stamps ==
    /\ state' = end_session_state
    /\ last_scrobble' = clock
    /\ ret' = Ret("end_session", None, "")
    /\ hist' = <<>>
    /\ UNCHANGED <<cfg, client, clock, monitor_vars>>

Call_end_session ==
    /\ state' = end_session_state
    /\ ret' = Ret("end_session", None, "")
    /\ hist' = <<>>
    /\ UNCHANGED <<last_scrobble, cfg, client, clock, monitor_vars>>

Call_should_scrobble ==
    \E m \in FineSnapshots :
        /\ ret' = Ret("should_scrobble", m,
                   should_scrobble_rule(state, last_scrobble, m, clock, cfg))
        /\ UNCHANGED <<state, last_scrobble, cfg, client, clock, hist, monitor_vars>>

Call_record_scrobble ==
    /\ ret.op = "should_scrobble"
    /\ ret.rule \in {"interval", "seek", "threshold"}
    /\ state' = record_scrobble_state(state, ret.media, cfg)
    /\ last_scrobble' = record_scrobble_last(state, last_scrobble, clock)
    /\ ret' = Ret("record_scrobble", ret.media, ret.rule)
    /\ hist' = IF state.active THEN Append(hist, Report(clock, ret.rule)) ELSE hist
    /\ UNCHANGED <<cfg, client, clock, monitor_vars>>

\* the user changes a setting
ChangeSettings ==
    /\ cfg' \in FineSettings \ {cfg}
    /\ ret' = NoRet
    /\ UNCHANGED <<state, last_scrobble, client, clock, hist, monitor_vars>>

\* time passes between two calls
Later ==
    /\ \E t \in FineTimes : t > clock /\ clock' = t
    /\ ret' = NoRet
    /\ UNCHANGED <<state, last_scrobble, cfg, client, hist, monitor_vars>>

TrackerNext ==
    \/ Call_start_session \/ Call_end_session \/ Call_should_scrobble
    \/ Call_record_scrobble \/ ChangeSettings \/ Later

TrackerSpec == TrackerInit /\ [][TrackerNext]_vars

----------------------------------------------------------------------------
(* ScenarioSpec: one playback followed on one thread. _on_start starts the  *)
(* session and makes the opening _send_update; every later instant of the  *)
(* script is one more _send_update (a poll iteration). Each call is one    *)
(* step; the Sink answers ok or not. `ret` holds the call just made, with  *)
(* the return statement of should_scrobble it was decided by.              *)

\* the snapshots the player gives, and when: 0 % at 0 s, 3 % at 5 s, 20 % at
\* 20 s, 25 % at 35 s, 82 % at 81 s, 83 % at 95 s
Script ==
    << [t |-> 0,  media |-> MediaInfo("movie", "M", 0, FALSE)],
       [t |-> 5,  media |-> MediaInfo("movie", "M", 30, FALSE)],
       [t |-> 20, media |-> MediaInfo("movie", "M", 200, FALSE)],
       [t |-> 35, media |-> MediaInfo("movie", "M", 250, FALSE)],
       [t |-> 81, media |-> MediaInfo("movie", "M", 820, FALSE)],
       [t |-> 95, media |-> MediaInfo("movie", "M", 830, FALSE)] >>

\* poll_interval 30 and watched_threshold 80, set or left empty
ScenarioSettings ==
    [poll_interval : {<<>>, <<30>>},
     watched_threshold : {<<>>, <<800>>},
     scrobble_movies : {TRUE},
     scrobble_tv : {TRUE},
     scrobble_music : {TRUE},
     chronicle_url : {<<"scheme://host", "/">>},
     api_key : {"key"}]

\* the script's entry for the present instant
ScriptNow == Script[CHOOSE i \in 1..Len(Script) : Script[i].t = clock]

ScenarioInit ==
    /\ state = NoState
    /\ last_scrobble = 0
    /\ cfg \in ScenarioSettings
    /\ client = ChronicleClient(cfg)
    /\ clock = 0
    /\ lock = ""
    /\ stop_event = FALSE
    /\ pc = [t \in Threads |-> "idle"]
    /\ caller = [t \in Threads |-> ""]
    /\ media = [t \in Threads |-> None]
    /\ now = [t \in Threads |-> 0]
    /\ force = [t \in Threads |-> FALSE]
    /\ payload = [t \in Threads |-> Unbound]
    /\ exc = [t \in Threads |-> ""]
    /\ wake = [t \in Threads |-> 0]
    /\ ret = NoRet
    /\ hist = <<>>
    /\ att = [t \in Threads |-> NoAttempt]

\* _on_start, lines 115-126: the item is a movie and movies are enabled
Scenario_on_start ==
    /\ ~state.active /\ clock = 0
    /\ _should_scrobble_type(ScriptNow.media.media_type, cfg)
    /\ state' = start_session_state(ScriptNow.media)
    /\ last_scrobble' = start_session_last
    /\ ret' = Ret("start_session", ScriptNow.media, "")
    /\ hist' = <<>>
    /\ UNCHANGED <<cfg, client, clock, lock, stop_event, pc, caller, media, now, force,
                   payload, exc, wake, att>>

\* _send_update(), lines 138-153, from its first statement to its last: not
\* due, line 150 raises on the unbound `payload`; due, the Sink is called and,
\* if it answers ok, the report is recorded. A failed send is remembered in
\* att.sink.
Scenario_send_update ==
    /\ state.active /\ ret.op # "_send_update"
    /\ LET m == ScriptNow.media
           rule == should_scrobble_rule(state, last_scrobble, m, clock, cfg)
       IN /\ ret' = Ret("_send_update", m, rule)
          /\ IF should_scrobble(state, last_scrobble, m, clock, cfg)
             THEN \E ok \in BOOLEAN :
                     /\ exc' = Set(exc, "host", "")
                     /\ IF ok
                        THEN /\ state' = record_scrobble_state(state, m, cfg)
                             /\ last_scrobble' = record_scrobble_last(state, last_scrobble, clock)
                             /\ hist' = Append(hist, Report(clock, rule))
                             /\ UNCHANGED att
                        ELSE /\ att' = Set(att, "host", [att["host"] EXCEPT !.sink = "failed"])
                             /\ UNCHANGED <<state, last_scrobble, hist>>
             ELSE /\ exc' = Set(exc, "host", "UnboundLocalError")
                  /\ UNCHANGED <<state, last_scrobble, hist, att>>
    /\ UNCHANGED <<cfg, client, clock, lock, stop_event, pc, caller, media, now, force,
                   payload, wake>>

\* the script's next instant comes
ScenarioTick ==
    /\ ret.op = "_send_update"
    /\ \E i \in 1..(Len(Script) - 1) :
          /\ Script[i].t = clock
          /\ clock' = Script[i + 1].t
    /\ ret' = NoRet
    /\ UNCHANGED <<state, last_scrobble, cfg, client, lock, stop_event, pc, caller, media,
                   now, force, payload, exc, wake, hist, att>>

ScenarioNext == Scenario_on_start \/ Scenario_send_update \/ ScenarioTick

ScenarioSpec == ScenarioInit /\ [][ScenarioNext]_vars

----------------------------------------------------------------------------
(* PollSpec: the poll thread on a clock of whole seconds. A poll iteration *)
(* (_send_update and the catch of _poll_loop) is one step taking no time,  *)
(* and the wait of _POLL_SLEEP that follows it ends on time; the host's    *)
(* start and stop callbacks are one step each. att["poller"] remembers,    *)
(* until the next recorded report, that an iteration read no unpaused      *)
(* snapshot (rule "paused") or that a send failed (sink "failed"); ret     *)
(* holds the step just made, and hist is not kept.                         *)

PollSnapshots ==
    { MediaInfo("movie", "M", p, FALSE) : p \in {0, 780, 820} }
    \cup { MediaInfo("movie", "M", 780, TRUE) }

\* urlopen answers 200 or fails to connect
PollResponses ==
    { r \in Responses : r.kind = "URLError" \/ (r.kind = "response" /\ r.code = 200) }

PollSettings ==
    [poll_interval : {<<>>, <<20>>},
     watched_threshold : {<<>>},
     scrobble_movies : {TRUE},
     scrobble_tv : {TRUE},
     scrobble_music : {TRUE},
     chronicle_url : {<<"scheme://host", "/">>},
     api_key : {"key"}]

PollInit ==
    /\ state = NoState
    /\ last_scrobble = 0
    /\ cfg \in PollSettings
    /\ client = ChronicleClient(cfg)
    /\ clock = 0
    /\ lock = ""
    /\ stop_event = FALSE
    /\ pc = [t \in Threads |-> IF t = "host" THEN "idle" ELSE "sleep"]
    /\ caller = [t \in Threads |-> IF t = "host" THEN "" ELSE "_poll_loop"]
    /\ media = [t \in Threads |-> None]
    /\ now = [t \in Threads |-> 0]
    /\ force = [t \in Threads |-> FALSE]
    /\ payload = [t \in Threads |-> Unbound]
    /\ exc = [t \in Threads |-> ""]
    /\ wake = [t \in Threads |-> 0]
    /\ ret = NoRet
    /\ hist = <<>>
    /\ att = [t \in Threads |-> NoAttempt]

\* _send_update() run from its first statement to its last on the tracker's
\* fields st and last, with the player giving m and urlopen doing r: the
\* fields, reports and memory of att["poller"] that it leaves
send_update(st, last, m, r) ==
    IF m = None \/ ~has_session(st)
    THEN [state |-> st, last |-> last, rule |-> "no_session",
          att |-> IF m = None /\ has_session(st)
                  THEN [att["poller"] EXCEPT !.rule = "paused"] ELSE att["poller"]]
    ELSE IF ~should_scrobble(st, last, m, clock, cfg)
    THEN [state |-> st, last |-> last,
          rule |-> should_scrobble_rule(st, last, m, clock, cfg),
          att |-> IF m.is_paused THEN [att["poller"] EXCEPT !.rule = "paused"]
                  ELSE att["poller"]]
    ELSE IF scrobble(client, to_scrobble_payload(m), r) = "True"
    THEN [state |-> record_scrobble_state(st, m, cfg),
          last |-> record_scrobble_last(st, last, clock),
          rule |-> should_scrobble_rule(st, last, m, clock, cfg),
          att |-> NoAttempt]
    ELSE [state |-> st, last |-> last,
          rule |-> should_scrobble_rule(st, last, m, clock, cfg),
          att |-> [att["poller"] EXCEPT !.sink = "failed"]]

\* onPlayBackStarted, onAVStarted: _on_start, lines 115-129, with its opening
\* _send_update()
Poll_on_start ==
    \E m \in PollSnapshots, r \in PollResponses :
        /\ ~m.is_paused /\ _should_scrobble_type(m.media_type, cfg)
        /\ LET res == send_update(start_session_state(m), start_session_last, m, r)
           IN /\ state' = res.state
              /\ last_scrobble' = res.last
              /\ att' = Set(att, "poller",
                            IF res.att = NoAttempt THEN NoAttempt
                            ELSE [NoAttempt EXCEPT !.sink = res.att.sink])
              /\ ret' = Ret("_on_start", m, res.rule)
        /\ UNCHANGED <<cfg, client, clock, lock, stop_event, pc, caller, media, now, force,
                       payload, exc, wake, hist>>

\* onPlayBackStopped: _on_stop
Poll_on_stop ==
    /\ has_session(state)
    /\ state' = end_session_state
    /\ att' = Set(att, "poller", NoAttempt)
    /\ ret' = Ret("_on_stop", None, "")
    /\ UNCHANGED <<last_scrobble, cfg, client, clock, lock, stop_event, pc, caller, media,
                   now, force, payload, exc, wake, hist>>

\* PollIteration with a wait of two periods
PollIteration_slow ==
    /\ pc["poller"] = "sleep" /\ clock >= wake["poller"]
    /\ \E m \in PollSnapshots \cup {None}, r \in PollResponses :
          LET res == send_update(state, last_scrobble, m, r)
          IN /\ state' = res.state
             /\ last_scrobble' = res.last
             /\ att' = Set(att, "poller", res.att)
             /\ ret' = Ret("_send_update", m, res.rule)
             /\ exc' = Set(exc, "poller",
                           IF res.rule \in {"paused", "floor", "none"}
                           THEN "UnboundLocalError" ELSE "")
    /\ wake' = Set(wake, "poller", clock + 2 * _POLL_SLEEP)
    /\ UNCHANGED <<cfg, client, clock, lock, stop_event, pc, caller, media, now, force,
                   payload, hist>>

\* _poll_loop, lines 167-172: the wait is over; one more _send_update(), its
\* exception caught, and the next wait begun
PollIteration ==
    /\ pc["poller"] = "sleep" /\ clock >= wake["poller"]
    /\ \E m \in PollSnapshots \cup {None}, r \in PollResponses :
          LET res == send_update(state, last_scrobble, m, r)
          IN /\ state' = res.state
             /\ last_scrobble' = res.last
             /\ att' = Set(att, "poller", res.att)
             /\ ret' = Ret("_send_update", m, res.rule)
             /\ exc' = Set(exc, "poller",
                           IF res.rule \in {"paused", "floor", "none"}
                           THEN "UnboundLocalError" ELSE "")
    /\ wake' = Set(wake, "poller", clock + _POLL_SLEEP)
    /\ UNCHANGED <<cfg, client, clock, lock, stop_event, pc, caller, media, now, force,
                   payload, hist>>

\* a second passes; the poll thread's wait does not overrun
PollTime ==
    /\ clock < MaxPollClock /\ clock < wake["poller"]
    /\ clock' = clock + 1
    /\ ret' = NoRet
    /\ UNCHANGED <<state, last_scrobble, cfg, client, lock, stop_event, pc, caller, media,
                   now, force, payload, exc, wake, hist, att>>

PollNext == Poll_on_start \/ Poll_on_stop \/ PollIteration \/ PollTime

PollSpec == PollInit /\ [][PollNext]_vars /\ WF_vars(PollIteration) /\ WF_vars(PollTime)

----------------------------------------------------------------------------
(* ClientSpec: ChronicleClient alone. The user edits the URL and the key,  *)
(* the monitor builds a new client from them, and scrobble() is called on  *)
(* the client that exists. A URL is the sequence of its parts: a scheme    *)
(* with a host, a bare host, a slash. ret holds the call just made,        *)
(* now["host"] the status urlopen answered or raised with (0 when it gave  *)
(* none) and exc["host"] the exception raised inside scrobble().           *)

ClientSettings ==
    [poll_interval : {<<>>},
     watched_threshold : {<<>>},
     scrobble_movies : {TRUE},
     scrobble_tv : {TRUE},
     scrobble_music : {TRUE},
     chronicle_url : {<<>>, <<"/">>, <<"host">>, <<"scheme://host">>,
                      <<"scheme://host", "/">>},
     api_key : {"", "key"}]

ClientInit ==
    /\ state = NoState
    /\ last_scrobble = 0
    /\ cfg \in ClientSettings
    /\ client = ChronicleClient(cfg)
    /\ clock = 0
    /\ lock = ""
    /\ stop_event = FALSE
    /\ pc = [t \in Threads |-> "idle"]
    /\ caller = [t \in Threads |-> ""]
    /\ media = [t \in Threads |-> None]
    /\ now = [t \in Threads |-> 0]
    /\ force = [t \in Threads |-> FALSE]
    /\ payload = [t \in Threads |-> Unbound]
    /\ exc = [t \in Threads |-> ""]
    /\ wake = [t \in Threads |-> 0]
    /\ ret = NoRet
    /\ hist = <<>>
    /\ att = [t \in Threads |-> NoAttempt]

\* the user saves other settings
Client_edit ==
    /\ \E c \in ClientSettings : cfg' = c /\ c # cfg
    /\ UNCHANGED <<state, last_scrobble, client, clock, lock, stop_event, pc, caller, media,
                   now, force, payload, exc, wake, ret, hist, att>>

\* ChronicleClient(): __init__ and refresh_settings
Client_new ==
    /\ client' = ChronicleClient(cfg)
    /\ client' # client
    /\ ret' = NoRet
    /\ now' = Set(now, "host", 0)
    /\ exc' = Set(exc, "host", "")
    /\ UNCHANGED <<state, last_scrobble, cfg, clock, lock, stop_event, pc, caller, media,
                   force, payload, wake, hist, att>>

\* scrobble(payload)
Client_scrobble ==
    \E m \in {MediaInfo("movie", "M", 300, FALSE)}, r \in Responses :
        LET res == scrobble(client, to_scrobble_payload(m), r)
            called == client.base_url # <<>> /\ client.api_key # "" /\ res # "ValueError"
        IN /\ ret' = Ret("scrobble", m, res)
           /\ now' = Set(now, "host", IF called THEN r.code ELSE 0)
           /\ exc' = Set(exc, "host",
                         IF res = "ValueError" THEN res
                         ELSE IF called /\ r.kind # "response" THEN r.kind ELSE "")
           /\ UNCHANGED <<state, last_scrobble, cfg, client, clock, lock, stop_event, pc,
                          caller, media, force, payload, wake, hist, att>>

ClientNext == Client_edit \/ Client_new \/ Client_scrobble

ClientSpec == ClientInit /\ [][ClientNext]_vars

----------------------------------------------------------------------------
(* InfoSpec: the derived properties of one MediaInfo. media["host"] is the *)
(* snapshot as Kodi gave it: item is the answer of Player.GetItem and      *)
(* props that of Player.GetProperties; a key that may be absent is a       *)
(* sequence of no or one value, and of the uniqueid mapping an absent key  *)
(* is the empty string. A string is the sequence of its characters. Times  *)
(* computed are thousandths of a second. ret holds the property just read. *)

IdKeys == {"imdb", "tmdb", "tvdb", "musicbrainz"}

Whitespace == {" "}

Digits == {"0", "1", "2", "3", "4", "5", "6", "7", "8", "9"}

\* str.strip()
strip(v) ==
    IF \A i \in 1..Len(v) : v[i] \in Whitespace THEN <<>>
    ELSE LET a == CHOOSE i \in 1..Len(v) :
                      v[i] \notin Whitespace /\ \A j \in 1..(i - 1) : v[j] \in Whitespace
             b == CHOOSE i \in 1..Len(v) :
                      v[i] \notin Whitespace /\ \A j \in (i + 1)..Len(v) : v[j] \in Whitespace
         IN SubSeq(v, a, b)

\* str.startswith(prefix)
startswith(v, prefix) == Len(v) >= Len(prefix) /\ SubSeq(v, 1, Len(prefix)) = prefix

\* str.isdigit()
isdigit(v) == v # <<>> /\ \A i \in 1..Len(v) : v[i] \in Digits

\* dict.get(key, default) of a key that may be absent
get(opt, default) == IF opt = <<>> THEN default ELSE opt[1]

\* ids[key] = val
put(ids, key, val) == [k \in DOMAIN ids \cup {key} |-> IF k = key THEN val ELSE ids[k]]

_hmsm_to_seconds(t) ==
    IF t = <<>> THEN 0
    ELSE t[1].hours * 3600000 + t[1].minutes * 60000 + t[1].seconds * 1000
             + t[1].milliseconds

\* MediaInfo.total_time with the runtime tested after the duration
total_time_duration_first(m) ==
    LET t == _hmsm_to_seconds(m.props.totaltime)
    IN IF t > 0 THEN t
       ELSE IF get(m.item.duration, 0) # 0 THEN get(m.item.duration, 0) * 1000
       ELSE IF get(m.item.runtime, 0) # 0 THEN get(m.item.runtime, 0) * 1000
       ELSE 0

\* MediaInfo.total_time
total_time(m) ==
    LET t == _hmsm_to_seconds(m.props.totaltime)
    IN IF t > 0 THEN t
       ELSE IF get(m.item.runtime, 0) # 0 THEN get(m.item.runtime, 0) * 1000
       ELSE IF get(m.item.duration, 0) # 0 THEN get(m.item.duration, 0) * 1000
       ELSE 0

\* MediaInfo.external_ids with the legacy field written over a tmdb id found
external_ids_overwrites(m) ==
    LET unique == m.item.uniqueid
        found == { key \in IdKeys : strip(unique[key]) # <<>> }
        ids == [key \in found |-> strip(unique[key])]
        imdb == strip(m.item.imdbnumber)
    IN IF "imdb" \in DOMAIN ids THEN ids
       ELSE IF startswith(imdb, <<"t", "t">>) THEN put(ids, "imdb", imdb)
       ELSE IF isdigit(imdb) THEN put(ids, "tmdb", imdb)
       ELSE ids

\* MediaInfo.external_ids
external_ids(m) ==
    LET unique == m.item.uniqueid
        found == { key \in IdKeys : strip(unique[key]) # <<>> }
        ids == [key \in found |-> strip(unique[key])]
        imdb == strip(m.item.imdbnumber)
    IN IF "imdb" \in DOMAIN ids THEN ids
       ELSE IF startswith(imdb, <<"t", "t">>) THEN put(ids, "imdb", imdb)
       ELSE IF isdigit(imdb) /\ "tmdb" \notin DOMAIN ids THEN put(ids, "tmdb", imdb)
       ELSE ids

\* MediaInfo.media_type
media_type(m) ==
    IF m.item.type = "movie" THEN "movie"
    ELSE IF m.item.type = "episode" THEN "episode"
    ELSE IF m.item.type = "song" THEN "track"
    ELSE "unknown"

\* round(seconds, 1) on thousandths of a second: to the nearest tenth, a tie
\* to the even one
round1(ms) ==
    LET q == ms \div 100
        r == ms % 100
    IN IF r < 50 THEN 100 * q
       ELSE IF r > 50 THEN 100 * (q + 1)
       ELSE IF q % 2 = 0 THEN 100 * q ELSE 100 * (q + 1)

\* the keys and values that every payload has (lines 210-219); round(., 2)
\* leaves a percentage of whole tenths as it is
payload_common(m) ==
    [mediaType |-> media_type(m),
     title |-> get(m.item.title, <<>>),
     year |-> get(m.item.year, 0),
     progress |-> m.props.percentage,
     currentTime |-> round1(_hmsm_to_seconds(m.props.time)),
     totalTime |-> round1(total_time(m)),
     externalIds |-> external_ids(m),
     playerName |-> "Kodi"]

\* lines 221-223: the keys added for an episode
payload_episode(m) ==
    [season |-> get(m.item.season, 0),
     episode |-> get(m.item.episode, 0),
     showTitle |-> get(m.item.showtitle, <<>>)]

\* MediaInfo.to_scrobble_payload adding the episode's keys for every kind
payload_dict_episode_always(m) == payload_common(m) @@ payload_episode(m)

\* MediaInfo.to_scrobble_payload on the item as Kodi gave it: the dict
payload_dict(m) ==
    IF media_type(m) = "episode"
    THEN payload_common(m) @@ payload_episode(m)
    ELSE payload_common(m)

TotalTimes ==
    {<<>>} \cup
    { <<[hours |-> h, minutes |-> 0, seconds |-> x, milliseconds |-> ms]>> :
          h \in {0, 1}, x \in {0, 30}, ms \in {0, 500} }

\* Player.GetProperties answers besides totaltime: 42.5 % at 1 min 2.52 s
PlayerProps(tt) ==
    [totaltime |-> tt, percentage |-> 425,
     time |-> <<[hours |-> 0, minutes |-> 1, seconds |-> 2, milliseconds |-> 520]>>]

Items ==
    [type : {"movie", "episode", "song", ""},
     title : {<<"T">>},
     year : {<<1999>>},
     season : {<<2>>},
     episode : {<<3>>},
     showtitle : {<<"S">>},
     runtime : {<<>>, <<0>>, <<5400>>},
     duration : {<<>>, <<0>>, <<200>>},
     imdbnumber : {<<>>, <<"t", "t", "9">>, <<" ", "t", "t", "9">>, <<"7", "7">>,
                   <<"7", " ">>, <<"7", "x">>, <<"t">>},
     uniqueid : [imdb : {<<>>, <<" ">>, <<"t", "t", "1", " ">>},
                 tmdb : {<<>>, <<"2">>},
                 tvdb : {<<>>, <<"3">>},
                 musicbrainz : {<<>>, <<"m", "b">>}]]

InfoInit ==
    /\ state = NoState
    /\ last_scrobble = 0
    /\ cfg \in PollSettings
    /\ cfg.poll_interval = <<>>
    /\ client = ChronicleClient(cfg)
    /\ clock = 0
    /\ lock = ""
    /\ stop_event = FALSE
    /\ pc = [t \in Threads |-> "idle"]
    /\ caller = [t \in Threads |-> ""]
    /\ \E i \in Items, tt \in TotalTimes :
          media = [t \in Threads |-> [item |-> i, props |-> PlayerProps(tt)]]
    /\ now = [t \in Threads |-> 0]
    /\ force = [t \in Threads |-> FALSE]
    /\ payload = [t \in Threads |-> Unbound]
    /\ exc = [t \in Threads |-> ""]
    /\ wake = [t \in Threads |-> 0]
    /\ ret = NoRet
    /\ hist = <<>>
    /\ att = [t \in Threads |-> NoAttempt]

Info_total_time ==
    /\ ret' = [NoRet EXCEPT !.op = "total_time", !.rule = total_time(media["host"])]
    /\ UNCHANGED <<state, last_scrobble, cfg, client, clock, lock, stop_event, pc, caller,
                   media, now, force, payload, exc, wake, hist, att>>

Info_external_ids ==
    /\ ret' = [NoRet EXCEPT !.op = "external_ids", !.rule = external_ids(media["host"])]
    /\ UNCHANGED <<state, last_scrobble, cfg, client, clock, lock, stop_event, pc, caller,
                   media, now, force, payload, exc, wake, hist, att>>

Info_to_scrobble_payload ==
    /\ ret' = [NoRet EXCEPT !.op = "to_scrobble_payload",
                            !.rule = payload_dict(media["host"])]
    /\ UNCHANGED <<state, last_scrobble, cfg, client, clock, lock, stop_event, pc, caller,
                   media, now, force, payload, exc, wake, hist, att>>

InfoNext == Info_total_time \/ Info_external_ids \/ Info_to_scrobble_payload

InfoSpec == InfoInit /\ [][InfoNext]_vars

----------------------------------------------------------------------------
(* Properties *)

Due == {"interval", "seek", "threshold"}

\* thread t's attempt was decided without force and its report was recorded
Committed(t) ==
    /\ pc[t] = "su_return"
    /\ att[t].recorded = "recorded"
    /\ att[t].rule \in Due
    /\ ~att[t].stale

\* C1: of the attempts that found the same session due on the same baseline
\* (the same reports recorded so far), at most one ends with its report sent
\* and recorded; the others do not get as far as the Sink.
C1_AtMostOneCommitted ==
    \A t, u \in Threads :
        (t # u /\ Committed(t) /\ Committed(u)) => att[t].seen # att[u].seen

\* C2: any two reports recorded for one session have recorded times at least
\* MIN_INTERVAL apart (stated here of the reports that were not forced).
C2_CommitsFloorApart ==
    \A i, j \in 1..Len(hist) :
        (i # j /\ hist[i].rule \in Due /\ hist[j].rule \in Due)
            => Abs(hist[i].now - hist[j].now) >= MIN_INTERVAL

\* C3: right after start_session (nothing recorded yet), should_scrobble is
\* true for an unpaused snapshot whatever the percentage and whatever `now`.
C3_FirstEvaluationDue ==
    (ret.op = "should_scrobble" /\ state.active /\ hist = <<>> /\ ~ret.media.is_paused)
        => ret.rule \in Due

\* the instants of Spec's clock
Instants == { t \in 0..MaxClock : t % TimeStep = 0 }

\* C4: should_scrobble is false for every paused snapshot, in every session
\* state and at every instant; a thread that has bound a payload from a paused
\* snapshot (and so calls the Sink with it) is running a forced attempt.
C4_NoReportWhilePaused ==
    /\ \A m \in Snapshots, t \in Instants :
           m.is_paused => ~should_scrobble(state, last_scrobble, m, t, cfg)
    /\ \A t \in Threads :
           (payload[t].bound /\ media[t].is_paused) => force[t]

\* C4, its case: an ordinary attempt read a paused snapshot at an instant when
\* the same snapshot unpaused would have been due, and bound no payload.
C4_Witness ==
    \E t \in Threads :
        /\ pc[t] = "su_call" /\ ~force[t] /\ media[t].is_paused /\ ~payload[t].bound
        /\ should_scrobble(state, last_scrobble, [media[t] EXCEPT !.is_paused = FALSE],
                           now[t], cfg)

\* the session is replaced or ended in this step
SessionStep == \E t \in Threads : pc[t] \in {"os_start", "stop_end"} /\ pc'[t] # pc[t]

Fields == <<state.last_percentage, state.watched_sent, last_scrobble>>

\* C6: last_percentage, watched_sent and _last_scrobble change only in a step
\* that is record_scrobble after the Sink answered ok, start_session or
\* end_session; every other step (a decision, a Sink call or answer, a
\* callback that does nothing, an attempt found not due) leaves them alone.
C6_FieldsChangeOnlyOnCommit ==
    [][ Fields' # Fields =>
          \E t \in Threads :
              \/ pc[t] = "su_record" /\ pc'[t] = "su_return" /\ att[t].sink = "ok"
              \/ pc[t] = "os_start" /\ pc'[t] = "su_read"
              \/ pc[t] = "stop_end" /\ pc'[t] = "cb_return"
      ]_vars

\* C6, its case: an attempt has decided to report a percentage other than the
\* one last recorded, its payload is at the Sink, and the fields are those it
\* decided on.
C6_Witness ==
    \E t \in Threads :
        /\ pc[t] = "su_sink" /\ att[t].rule \in Due /\ ~att[t].stale
        /\ hist = att[t].seen /\ hist # <<>>
        /\ media[t].percentage # state.last_percentage
        /\ <<state, last_scrobble>> = att[t].base

\* C7: an attempt whose send failed is over (no second send, no
\* record_scrobble) and has changed nothing: unless another report was
\* recorded or the session ended meanwhile, the tracker's fields are those the
\* attempt decided on, and should_scrobble is true again for its snapshot at
\* its `now` and at every later instant.
C7_FailedSendLeavesDue ==
    \A t \in Threads :
        att[t].sink = "failed" =>
            /\ pc[t] = "su_return"
            /\ att[t].recorded = ""
            /\ (~att[t].stale /\ hist = att[t].seen) =>
                  /\ <<state, last_scrobble>> = att[t].base
                  /\ att[t].rule \in Due =>
                        \A t2 \in Instants :
                            t2 >= now[t] =>
                                should_scrobble(state, last_scrobble, media[t], t2, cfg)

\* C7, its case: a send decided by a rule has failed, after an earlier report
\* of the session was recorded, and nothing was recorded since the decision.
C7_Witness ==
    \E t \in Threads :
        /\ att[t].sink = "failed" /\ att[t].rule \in Due
        /\ ~att[t].stale /\ hist = att[t].seen /\ hist # <<>>

\* C8: when onPlayBackEnded's forced _send_update returns and a session is
\* active, the Sink has been called (once) by that attempt.
C8_EndedSendsOnce ==
    (pc["host"] = "su_return" /\ caller["host"] = "onPlayBackEnded" /\ state.active)
        => att["host"].sink \in {"ok", "failed"}

\* the decision as the rules state it, in seconds and tenths of a percent
Reference(st, last, m, t, c) ==
    /\ st.active
    /\ ~m.is_paused
    /\ ~(t - last < 15)
    /\ \/ t - last >= poll_interval(c)
       \/ Abs(m.percentage - st.last_percentage) >= 50
       \/ ~st.watched_sent /\ m.percentage >= threshold(c)

\* C9: in every state of the tracker, for every snapshot and every `now`,
\* should_scrobble answers what the reference decision answers (no session or
\* paused: false; under the 15 s floor: false, also with a poll interval
\* below 15; then interval, seek, threshold: true; else false), and so did
\* the call that was just made.
C9_ReferenceDecision ==
    /\ \A m \in FineSnapshots, t \in FineTimes :
          should_scrobble(state, last_scrobble, m, t, cfg)
              = Reference(state, last_scrobble, m, t, cfg)
    /\ ret.op = "should_scrobble" =>
          (ret.rule \in Due) = Reference(state, last_scrobble, ret.media, clock, cfg)

\* C9, its case: after a recorded report, should_scrobble was called on an
\* unpaused snapshot with the configured poll interval elapsed but not the
\* floor, and answered false by the floor.
C9_Witness ==
    /\ ret.op = "should_scrobble" /\ ret.rule = "floor"
    /\ state.active /\ ~ret.media.is_paused /\ hist # <<>>
    /\ clock - last_scrobble >= poll_interval(cfg)

\* the seek boundary's setting: 40.0% last reported, the floor satisfied, the
\* interval not reached, the threshold rule not applicable
SeekCase ==
    /\ state.active /\ state.last_percentage = 400
    /\ clock - last_scrobble >= MIN_INTERVAL
    /\ clock - last_scrobble < poll_interval(cfg)
    /\ state.watched_sent \/ threshold(cfg) > 451

\* should_scrobble now, for an unpaused snapshot at p tenths of a percent
DueAt(p) ==
    should_scrobble(state, last_scrobble, MediaInfo("movie", "M", p, FALSE), clock, cfg)

\* C10, as stated: in the seek boundary's setting 44.9% is not due, 45.1% is
\* due, and exactly 45.0% (delta = 5.0) is not due.
C10_SeekBoundaryExcluded ==
    SeekCase => ~DueAt(449) /\ DueAt(451) /\ ~DueAt(450)

\* C10, amended: in the seek boundary's setting 44.9% is not due, 45.1% is
\* due, and exactly 45.0% (delta = 5.0) is due.
C10_SeekBoundaryIncluded ==
    SeekCase => ~DueAt(449) /\ DueAt(451) /\ DueAt(450)

\* C10, its case: in the seek boundary's setting should_scrobble was called
\* on an unpaused snapshot at exactly 45.0% and answered true by the seek rule.
C10_Witness ==
    /\ SeekCase
    /\ ret.op = "should_scrobble" /\ ret.rule = "seek"
    /\ ret.media.percentage = 450 /\ ~ret.media.is_paused

\* C11: in the scripted playback with every send so far answered ok, the
\* calls at 0 s, 20 s, 35 s and 81 s each find the snapshot due and record a
\* report at that instant, the calls at 5 s and 95 s find it not due, and
\* from the call at 81 s on watched_sent is true.
C11_ScenarioReports ==
    (ret.op = "_send_update" /\ att["host"].sink # "failed") =>
        /\ clock \in {0, 20, 35, 81} =>
              /\ ret.rule \in Due
              /\ hist # <<>> /\ hist[Len(hist)].now = clock
        /\ clock \in {5, 95} => ret.rule \notin Due
        /\ clock >= 81 => state.watched_sent

\* C12: start_session, whatever session there was before, leaves a session
\* whose constant fields are the snapshot's, with last_percentage 0,
\* watched_sent false and _last_scrobble at its initial value 0.0 (the
\* tracker's "never").
C12_StartReplaces ==
    ret.op = "start_session" =>
        /\ has_session(state)
        /\ state.media_type = ret.media.media_type /\ state.title = ret.media.title
        /\ state.last_percentage = 0 /\ ~state.watched_sent
        /\ last_scrobble = 0

\* C12, its case: start_session was called over a session that had reported a
\* percentage above 0, had watched_sent set and a report time after 0.
C12_Witness ==
    /\ ret.op = "start_session"
    /\ ret.before[1].active /\ ret.before[1].watched_sent
    /\ ret.before[1].last_percentage > 0 /\ ret.before[2] > 0

\* C13: after end_session there is no session, and end_session called with no
\* session leaves the tracker's fields as they were.
C13_EndIdempotent ==
    ret.op = "end_session" =>
        /\ ~has_session(state)
        /\ ~has_session(ret.before[1]) => <<state, last_scrobble>> = ret.before

\* C13, its case: end_session was called with no session, after a session
\* that had recorded a report was ended, at a later time than that report.
C13_Witness ==
    /\ ret.op = "end_session" /\ ~has_session(ret.before[1])
    /\ last_scrobble > 0 /\ clock > last_scrobble

\* C14: record_scrobble(media, now) with a session sets last_percentage to the
\* snapshot's percentage and _last_scrobble to now, sets watched_sent if the
\* percentage is at the threshold or above and otherwise keeps it; with no
\* session (ended while the send was in flight) it changes nothing and no
\* session appears.
C14_RecordScrobble ==
    [][ \A t \in Threads :
          (pc[t] = "su_record" /\ pc'[t] = "su_return") =>
              IF has_session(state)
              THEN /\ state' = [state EXCEPT
                                  !.last_percentage = media[t].percentage,
                                  !.watched_sent = state.watched_sent
                                                   \/ media[t].percentage >= threshold(cfg)]
                   /\ last_scrobble' = now[t]
              ELSE /\ ~has_session(state')
                   /\ <<state, last_scrobble>>' = <<state, last_scrobble>>
      ]_vars

\* C14, its case: an attempt's send was answered ok after the session had
\* been ended, its record_scrobble has run, and there is no session and no
\* new report time.
C14_Witness ==
    \E t \in Threads :
        /\ pc[t] = "su_return" /\ att[t].recorded = "noop"
        /\ ~has_session(state) /\ now[t] # last_scrobble

\* C15: the one session (_state) comes into existence, or gives way to a
\* session of another item, only in _on_start's start_session on the host
\* thread, for a snapshot of a recognised kind that is enabled; it ceases to
\* exist only in _on_stop's end_session on the host thread; no step of the
\* poll thread and no other step of a callback creates or destroys it.
C15_SessionLifecycle ==
    [][ /\ (has_session(state')
            /\ (~has_session(state) \/ state'.media_type # state.media_type
                                    \/ state'.title # state.title)) =>
              /\ pc["host"] = "os_start" /\ pc'["host"] = "su_read" /\ lock = "host"
              /\ media["host"].media_type \in {"movie", "episode", "track"}
              /\ _should_scrobble_type(media["host"].media_type, cfg)
              /\ state'.media_type = media["host"].media_type
        /\ (has_session(state) /\ ~has_session(state')) =>
              /\ pc["host"] = "stop_end" /\ pc'["host"] = "cb_return" /\ lock = "host"
        /\ pc'["poller"] # pc["poller"] => has_session(state') = has_session(state)
      ]_vars

\* C15, its case: with no session, the poll thread read a snapshot of an
\* enabled kind, its late record_scrobble has run, and still no session
\* exists, while the host is in a start callback about to create one.
C15_Witness ==
    /\ ~has_session(state)
    /\ pc["poller"] = "su_return" /\ att["poller"].recorded = "noop"
    /\ _should_scrobble_type(media["poller"].media_type, cfg)
    /\ pc["host"] = "os_start"

\* thread t is at a statement that calls the tracker: start_session,
\* end_session, has_session/should_scrobble, record_scrobble
InTracker(t) == pc[t] \in {"os_start", "stop_end", "su_decide", "su_record"}

\* C16: a thread that is at a call of the tracker holds the monitor's lock, so
\* no two threads are at one together; and the tracker's fields change only
\* in a step of the thread that holds the lock.
C16_TrackerUnderLock ==
    [][ /\ \A t \in Threads : InTracker(t)' => lock' = t
        /\ <<state, last_scrobble>>' # <<state, last_scrobble>> =>
              (lock \in Threads /\ InTracker(lock) /\ pc'[lock] # pc[lock])
      ]_vars

\* C16, its case: the host is inside end_session holding the lock while the
\* poll thread, its send answered ok, waits for the lock to record.
C16_Witness ==
    /\ pc["host"] = "stop_end" /\ lock = "host"
    /\ pc["poller"] = "su_relock" /\ att["poller"].sink = "ok"

\* C17: an exception in a poll iteration does not end the poll thread: the
\* thread reaches "stopped" only from the head of its loop with the stop event
\* set; an exception takes it to the loop's wait of _POLL_SLEEP; and once
\* that wait is over it starts a further attempt, unless the stop event is set.
C17_PollLoopSurvives ==
    /\ [][ /\ (pc'["poller"] = "stopped" /\ pc["poller"] # "stopped") =>
                 (pc["poller"] = "loop" /\ stop_event)
           /\ (pc["poller"] = "raise" /\ pc'["poller"] # "raise") =>
                 (pc'["poller"] = "sleep" /\ wake'["poller"] = clock + _POLL_SLEEP)
           /\ (pc["poller"] = "sleep" /\ pc'["poller"] # "sleep") => pc'["poller"] = "loop"
           /\ (pc["poller"] = "loop" /\ pc'["poller"] # "loop" /\ ~stop_event) =>
                 pc'["poller"] = "su_read"
         ]_vars
    /\ (pc["poller"] = "raise") ~> (pc["poller"] = "sleep")
    /\ (pc["poller"] = "sleep" /\ exc["poller"] # "" /\ clock >= wake["poller"])
           ~> (pc["poller"] = "su_read" \/ stop_event)

\* C17, its case: the Reader raised inside a poll iteration, the exception was
\* caught, and the poll thread, not asked to stop, is in its wait.
C17_Witness ==
    /\ pc["poller"] = "sleep" /\ exc["poller"] = "ReaderError"
    /\ ~stop_event /\ has_session(state)

\* C18: when abort is requested run() sets the stop event and joins for at
\* most JoinTimeout; the stop event stays set; the poll thread, at the head of
\* its loop with the stop event set, ends and starts nothing more; run()
\* returns once the poll thread has ended or the timeout has passed, without
\* touching an attempt in flight; and with the threads scheduled the poll
\* thread does end and run() does return.
C18_Shutdown ==
    /\ [][ /\ (pc["host"] = "idle" /\ pc'["host"] = "join") =>
                 (stop_event' /\ wake'["host"] = clock + JoinTimeout)
           /\ stop_event => stop_event'
           /\ pc["poller"] = "stopped" => pc'["poller"] = "stopped"
           /\ (pc["poller"] = "loop" /\ stop_event /\ pc'["poller"] # "loop") =>
                 pc'["poller"] = "stopped"
           /\ (pc["host"] = "join" /\ pc'["host"] # "join") =>
                 /\ pc'["host"] = "exited"
                 /\ pc["poller"] = "stopped" \/ clock >= wake["host"]
                 /\ <<pc["poller"], payload, media, now, att, state, last_scrobble>>'
                        = <<pc["poller"], payload, media, now, att, state, last_scrobble>>
           /\ pc["host"] = "exited" => pc'["host"] = "exited"
         ]_vars
    /\ stop_event ~> (pc["poller"] = "stopped")
    /\ (pc["host"] = "join") ~> (pc["host"] = "exited")

\* C18, its case: run() has returned on the join's timeout while the poll
\* thread, which had passed the head of its loop before the stop event was
\* set, has a send in flight.
C18_Witness ==
    /\ pc["host"] = "exited" /\ stop_event
    /\ pc["poller"] = "su_sink" /\ att["poller"].sink = "called"

\* the settings as they stand now, an empty one read as 30 s or 80 %
PollIntervalNow == IF cfg.poll_interval = <<>> THEN 30 ELSE cfg.poll_interval[1]

ThresholdNow == IF cfg.watched_threshold = <<>> THEN 800 ELSE cfg.watched_threshold[1]

\* C19: a should_scrobble call decides by the poll interval and the threshold
\* set at the moment of the call, and a record_scrobble call sets watched_sent
\* by the threshold set at the moment of the call, whatever they were earlier
\* in the session; an empty setting counts as 30 s or 80 %.
C19_SettingsReadAtCall ==
    /\ (ret.op = "should_scrobble" /\ has_session(state) /\ ~ret.media.is_paused
            /\ clock - last_scrobble >= 15) =>
          (ret.rule \in Due) =
              \/ clock - last_scrobble >= PollIntervalNow
              \/ Abs(ret.media.percentage - state.last_percentage) >= 50
              \/ ~state.watched_sent /\ ret.media.percentage >= ThresholdNow
    /\ (ret.op = "record_scrobble" /\ has_session(state)) =>
          state.watched_sent =
              (ret.before[1].watched_sent \/ ret.media.percentage >= ThresholdNow)

\* C19, its case: the session's last report, at or above the present
\* threshold, was recorded under another threshold (watched_sent is not set),
\* and a should_scrobble call made since the change answered true by the
\* threshold rule.
C19_Witness ==
    /\ ret.op = "should_scrobble" /\ ret.rule = "threshold"
    /\ hist # <<>> /\ ~state.watched_sent
    /\ state.last_percentage >= ThresholdNow

\* C20: an attempt that is not forced and finds the snapshot not due returns
\* to its caller without an error: no thread is ever leaving _send_update by
\* the UnboundLocalError of line 150.
C20_NotDueReturnsNormally ==
    \A t \in Threads :
        (pc[t] = "raise" /\ ~force[t] /\ ~payload[t].bound) =>
            exc[t] # "UnboundLocalError"

\* C21: an attempt, forced or not, that finds no session under the lock
\* releases the lock and returns: it binds no payload, calls no Sink and
\* changes no field; and whoever is calling the Sink decided with a session.
C21_NoSessionNoReport ==
    [][ \A t \in Threads :
          /\ (pc[t] = "su_decide" /\ ~has_session(state) /\ pc'[t] # pc[t]) =>
                /\ pc'[t] = "su_return" /\ lock' = ""
                /\ ~payload'[t].bound /\ att'[t].sink = ""
                /\ <<state, last_scrobble, hist>>' = <<state, last_scrobble, hist>>
          /\ pc'[t] = "su_sink" => has_session(att'[t].base[1])
      ]_vars

\* C21, its case: onPlayBackEnded's forced attempt read a snapshot, found no
\* session, and is returning with nothing sent.
C21_Witness ==
    /\ pc["host"] = "su_return" /\ force["host"] /\ media["host"].some
    /\ ~has_session(state) /\ ~att["host"].decided /\ ~payload["host"].bound

\* the statements at which a thread waits for the monitor's lock
AtLock(t) == pc[t] \in {"sc_lock", "os_lock", "stop_lock", "su_lock", "su_relock"}

\* C22: a thread calling the Sink does not hold the lock, and while it calls
\* another thread waiting for the lock with nobody inside can take it.
C22_SinkOutsideLock ==
    \A t \in Threads :
        pc[t] = "su_sink" =>
            /\ lock # t
            /\ \A u \in Threads \ {t} :
                  (AtLock(u) /\ lock = "") =>
                      ENABLED (\/ SendUpdateLock(u) \/ SendUpdateRelock(u)
                               \/ OnStartLock(u) \/ OnStopLock(u)
                               \/ (u = "host" /\ SettingsLock))

\* C22, its case: the poll thread's send is in flight while the host, in a
\* stop, error or end-of-media callback, is inside end_session with the lock.
C22_Witness ==
    /\ pc["poller"] = "su_sink" /\ has_session(att["poller"].base[1])
    /\ pc["host"] = "stop_end" /\ lock = "host"

\* C23: a payload bound by an attempt carries the media identity (kind and
\* title) of the session that was active when the attempt decided.
C23_PayloadOfSession ==
    \A t \in Threads :
        (payload[t].bound /\ att[t].decided) =>
            /\ payload[t].mediaType = att[t].base[1].media_type
            /\ payload[t].title = att[t].base[1].title

\* the snapshot m is absent, of no recognised kind, or of a disabled kind
Ignored(m) ==
    \/ m = None
    \/ m.media_type \notin {"movie", "episode", "track"}
    \/ ~_should_scrobble_type(m.media_type, cfg)

\* C24: when _on_start has read the player (without an error), it goes on to
\* start_session only for a snapshot that is present and of a recognised,
\* enabled kind; otherwise the callback returns at once, with the session, its
\* fields and the recorded reports as they were and nothing sent.
C24_StartIgnored ==
    [][ (pc["host"] = "os_read" /\ pc'["host"] \notin {"os_read", "raise"}) =>
          IF Ignored(media'["host"])
          THEN /\ pc'["host"] = "cb_return"
               /\ <<state, last_scrobble, hist, lock, payload, att>>'
                      = <<state, last_scrobble, hist, lock, payload, att>>
          ELSE pc'["host"] = "os_lock"
      ]_vars

\* C24, its case: with a session that has a recorded report, a start callback
\* read an item of a disabled or unknown kind and is returning, the session
\* still there.
C24_Witness ==
    /\ pc["host"] = "cb_return" /\ media["host"].some /\ Ignored(media["host"])
    /\ has_session(state) /\ hist # <<>> /\ last_scrobble > 0

\* C25: the attempt that _on_start makes right after start_session, on an
\* unpaused snapshot of the item the session was started for, is due: when it
\* comes to the Sink call of line 150 it has bound a payload.
C25_OpeningAttemptDue ==
    (pc["host"] = "su_call" /\ caller["host"] = "_on_start"
        /\ ~media["host"].is_paused /\ media["host"].title = state.title) =>
            payload["host"].bound

\* C26: onPlayBackPaused only returns: from its delivery to its return no
\* variable of the monitor but the host's position changes. onPlayBackStopped
\* and onPlayBackError take the lock, end the session, release the lock and
\* return: they bind no payload and call no Sink.
C26_PauseAndStop ==
    [][ /\ caller'["host"] = "onPlayBackPaused" => pc'["host"] = "cb_return"
        /\ ((caller["host"] = "onPlayBackPaused" \/ caller'["host"] = "onPlayBackPaused")
               /\ pc'["host"] # pc["host"]) =>
              /\ pc'["host"] \in {"cb_return", "idle"}
              /\ <<state, last_scrobble, hist, lock, payload, att, client, stop_event>>'
                     = <<state, last_scrobble, hist, lock, payload, att, client, stop_event>>
        /\ (pc["host"] = "idle" /\ pc'["host"] = "stop_lock") =>
              UNCHANGED <<state, last_scrobble, lock>>
        /\ (pc["host"] = "stop_lock" /\ pc'["host"] # "stop_lock") =>
              /\ pc'["host"] = "stop_end" /\ lock' = "host"
              /\ UNCHANGED <<state, last_scrobble>>
        /\ (pc["host"] = "stop_end" /\ pc'["host"] # "stop_end") =>
              /\ pc'["host"] = "cb_return" /\ lock = "host" /\ lock' = ""
              /\ ~has_session(state') /\ last_scrobble' = last_scrobble
        /\ pc'["host"] \in {"stop_lock", "stop_end"} =>
              (caller'["host"] \in {"callback", "onPlayBackEnded"}
               /\ ~payload'["host"].bound /\ att'["host"].sink = "")
      ]_vars

\* C26, its case: onPlayBackPaused was delivered and is returning while a
\* session with a recorded report exists and the poll thread has a send in
\* flight.
C26_Witness ==
    /\ pc["host"] = "cb_return" /\ caller["host"] = "onPlayBackPaused"
    /\ has_session(state) /\ hist # <<>>
    /\ pc["poller"] = "su_sink"

\* an iteration since the last report read no unpaused snapshot, or a send failed
Excused == att["poller"].sink = "failed" \/ att["poller"].rule = "paused"

\* the larger of the configured interval and the floor
EffectiveInterval ==
    IF poll_interval(cfg) > MIN_INTERVAL THEN poll_interval(cfg) ELSE MIN_INTERVAL

\* the step just made recorded a report
JustReported ==
    /\ ret.op \in {"_send_update", "_on_start"}
    /\ ret.rule \in {"interval", "seek", "threshold"}
    /\ last_scrobble = clock
    /\ ~Excused

\* C27: the ticker period (5 s) is below the floor (15 s), which is below the
\* default interval (30 s); the next tick is never more than a period away; a
\* tick at which should_scrobble answers true sends, and a success is
\* recorded at that instant; with a session, unpaused reads and a succeeding
\* Sink the time since the last report stays below the effective interval
\* plus one period; and whenever the floor has passed since the last report
\* of a playing session, a further report follows (while the clock has room
\* for an interval and a period)
C27_TickerResponse ==
    /\ [](/\ _POLL_SLEEP < MIN_INTERVAL /\ MIN_INTERVAL < DefaultPollInterval
          /\ wake["poller"] <= clock + _POLL_SLEEP
          /\ (/\ ret.op = "_send_update" /\ ret.media # None
              /\ has_session(ret.before[1])
              /\ should_scrobble(ret.before[1], ret.before[2], ret.media, clock, cfg))
                => (att["poller"].sink = "failed" \/ JustReported)
          /\ (has_session(state) /\ ~Excused)
                => clock - last_scrobble < EffectiveInterval + _POLL_SLEEP)
    /\ (/\ has_session(state) /\ ~Excused
        /\ clock - last_scrobble >= MIN_INTERVAL
        /\ clock + EffectiveInterval + _POLL_SLEEP <= MaxPollClock)
          ~> (JustReported \/ ~has_session(state) \/ Excused)

\* C27 witness: a second report of a session, made by a tick on the interval
\* rule, later than the interval after an opening report made between ticks
C27_Witness ==
    /\ JustReported /\ ret.op = "_send_update" /\ ret.rule = "interval"
    /\ ret.before[2] % _POLL_SLEEP # 0
    /\ clock - ret.before[2] > poll_interval(cfg)

\* C28: scrobble returns True or False and never raises: True only when
\* urlopen answered a success status, False when the URL or the key is
\* missing, when urlopen raised, and when the status is not a 2xx one
C28_SinkReturnsBoolean ==
    ret.op = "scrobble" =>
        /\ ret.rule \in {"True", "False"}
        /\ ret.rule = "True" => (exc["host"] = "" /\ now["host"] \in 200..299)
        /\ (client.base_url = <<>> \/ client.api_key = "") => ret.rule = "False"
        /\ (exc["host"] \in {"HTTPError", "URLError"} \/ now["host"] \notin 200..299)
              => ret.rule # "True"

\* C29: the total duration read is the player's total time when that is
\* greater than zero; otherwise the item's runtime when that is not zero;
\* otherwise the item's duration when that is not zero; otherwise zero
C29_TotalTimeFallback ==
    ret.op = "total_time" =>
        LET tt == media["host"].props.totaltime
            player == IF tt = <<>> THEN 0
                      ELSE ((tt[1].hours * 60 + tt[1].minutes) * 60 + tt[1].seconds) * 1000
                               + tt[1].milliseconds
            runtime == IF media["host"].item.runtime = <<>> THEN 0
                       ELSE media["host"].item.runtime[1]
            duration == IF media["host"].item.duration = <<>> THEN 0
                        ELSE media["host"].item.duration[1]
        IN /\ player > 0 => ret.rule = player
           /\ (player <= 0 /\ runtime # 0) => ret.rule = 1000 * runtime
           /\ (player <= 0 /\ runtime = 0 /\ duration # 0) => ret.rule = 1000 * duration
           /\ (player <= 0 /\ runtime = 0 /\ duration = 0) => ret.rule = 0

\* C29 witness: the player reports a total time of zero and the item a
\* runtime and a duration that differ, and the runtime was the answer
C29_Witness ==
    /\ ret.op = "total_time"
    /\ media["host"].props.totaltime # <<>>
    /\ media["host"].item.runtime = <<5400>> /\ media["host"].item.duration = <<200>>
    /\ ret.rule = 5400000

\* a value of the uniqueid mapping or of imdbnumber that is more than whitespace
NonBlank(v) == \E i \in 1..Len(v) : v[i] \notin Whitespace

\* the characters of v between its leading and its trailing whitespace
Trimmed(v) ==
    LET inner == { i \in 1..Len(v) : v[i] \notin Whitespace }
        first == CHOOSE i \in inner : \A j \in inner : i <= j
        last == CHOOSE i \in inner : \A j \in inner : i >= j
    IN IF inner = {} THEN <<>> ELSE [k \in 1..(last - first + 1) |-> v[first + k - 1]]

\* C30 as stated: every key of imdb, tmdb, tvdb, musicbrainz whose value in
\* the uniqueid mapping is not empty is in the identifiers, and imdbnumber
\* supplies an identifier only when the mapping's imdb value is empty
C30_NonEmptyTaken ==
    ret.op = "external_ids" =>
        LET unique == media["host"].item.uniqueid
            legacy == Trimmed(media["host"].item.imdbnumber)
        IN /\ \A key \in IdKeys :
                 unique[key] # <<>> => (key \in DOMAIN ret.rule
                                          /\ ret.rule[key] = Trimmed(unique[key]))
           /\ unique.imdb # <<>> =>
                 \A key \in DOMAIN ret.rule :
                     unique[key] = <<>> => ret.rule[key] # legacy

\* C30, amended: a key whose value in the uniqueid mapping is more than
\* whitespace is in the identifiers with that value, trimmed, and nothing
\* replaces it; when imdb was not found so, imdbnumber (trimmed) is the imdb
\* identifier if it starts with tt, and the tmdb identifier if it is all
\* digits and tmdb was not found in the mapping; no other key is present
C30_ExternalIds ==
    ret.op = "external_ids" =>
        LET unique == media["host"].item.uniqueid
            legacy == Trimmed(media["host"].item.imdbnumber)
            tt == Len(legacy) >= 2 /\ legacy[1] = "t" /\ legacy[2] = "t"
            digits == legacy # <<>> /\ \A i \in 1..Len(legacy) : legacy[i] \in Digits
            ids == ret.rule
        IN /\ DOMAIN ids \subseteq IdKeys
           /\ \A key \in IdKeys :
                 NonBlank(unique[key]) => (key \in DOMAIN ids /\ ids[key] = Trimmed(unique[key]))
           /\ \A key \in {"tvdb", "musicbrainz"} :
                 ~NonBlank(unique[key]) => key \notin DOMAIN ids
           /\ ~NonBlank(unique.imdb) =>
                 /\ tt => ("imdb" \in DOMAIN ids /\ ids["imdb"] = legacy)
                 /\ ~tt => "imdb" \notin DOMAIN ids
           /\ ~NonBlank(unique.tmdb) =>
                 IF ~NonBlank(unique.imdb) /\ ~tt /\ digits
                 THEN "tmdb" \in DOMAIN ids /\ ids["tmdb"] = legacy
                 ELSE "tmdb" \notin DOMAIN ids

\* C30 witness: the mapping has a tmdb value and an imdb value of whitespace
\* only, imdbnumber is all digits, and the tmdb identifier is the mapping's
C30_Witness ==
    /\ ret.op = "external_ids"
    /\ media["host"].item.uniqueid.imdb = <<" ">>
    /\ media["host"].item.uniqueid.tmdb = <<"2">>
    /\ media["host"].item.imdbnumber = <<"7", " ">>
    /\ "imdb" \notin DOMAIN ret.rule
    /\ ret.rule["tmdb"] = <<"2">>

\* C32: a commit changes nothing of the tracker when the session its report
\* was decided under has since been ended or replaced; a session started
\* meanwhile keeps last_percentage 0, watched_sent false and last report
\* time 0.
C32_LateCommitLeavesNewSession ==
    [][ \A t \in Threads :
          (pc[t] = "su_record" /\ pc'[t] # "su_record" /\ att[t].stale)
              => UNCHANGED <<state, last_scrobble>> ]_vars

\* C33: while one session lasts, a commit never moves the last report time
\* backwards.
C33_LastReportTimeMonotone ==
    [][ \A t \in Threads :
          (pc[t] = "su_record" /\ pc'[t] # "su_record" /\ ~att[t].stale
              /\ has_session(state))
              => last_scrobble' >= last_scrobble ]_vars

\* C34: when the handler of a stop, an error or an end-of-media signal
\* returns, normally or by an exception, no session exists.
C34_NoSessionAfterStop ==
    [][ (/\ pc["host"] # "cb_return" /\ pc'["host"] = "cb_return"
         /\ (caller["host"] = "onPlayBackEnded" \/ pc["host"] = "stop_end"))
            => ~has_session(state') ]_vars

\* C36: the payload the Sink is called with is of kind movie, episode or
\* track, and of a kind that is switched on.
C36_SentKindEnabled ==
    \A t \in Threads :
        pc[t] = "su_sink" =>
            /\ payload[t].mediaType \in {"movie", "episode", "track"}
            /\ _should_scrobble_type(payload[t].mediaType, cfg)

\* C35: a start callback arriving for an item whose session is active and
\* has had a report recorded less than MIN_INTERVAL ago (the other start
\* callback of the same playback came first) does not get a second opening
\* report sent and recorded.
C35_OneOpeningReport ==
    ~(/\ ret.op = "_on_start" /\ JustReported
      /\ has_session(ret.before[1]) /\ ret.before[1].title = ret.media.title
      /\ ret.before[2] > 0
      /\ clock - ret.before[2] < MIN_INTERVAL)

\* C31: the payload built from a snapshot has the keys mediaType, title,
\* year, progress, currentTime, totalTime, externalIds and playerName
\* whatever the kind, mediaType being the snapshot's kind, and it has each of
\* the keys season, episode and showTitle exactly when the kind is episode.
C31_PayloadKeys ==
    ret.op = "to_scrobble_payload" =>
        LET keys == DOMAIN ret.rule
            kind == CASE media["host"].item.type = "movie" -> "movie"
                      [] media["host"].item.type = "episode" -> "episode"
                      [] media["host"].item.type = "song" -> "track"
                      [] OTHER -> "unknown"
        IN /\ {"mediaType", "title", "year", "progress", "currentTime", "totalTime",
                "externalIds", "playerName"} \subseteq keys
           /\ ret.rule.mediaType = kind
           /\ \A k \in {"season", "episode", "showTitle"} : k \in keys <=> kind = "episode"

\* C31 witness: a song whose item carries a season, an episode and a show
\* title: the payload is a track's and has none of the three keys
C31_Witness ==
    /\ ret.op = "to_scrobble_payload"
    /\ media["host"].item.type = "song" /\ media["host"].item.season = <<2>>
    /\ ret.rule.mediaType = "track"
    /\ ret.rule.currentTime = 62500
    /\ {"season", "episode", "showTitle"} \cap DOMAIN ret.rule = {}

\* the statements inside a "with self._lock" block
InLock(t) == pc[t] \in {"os_start", "stop_end", "su_decide", "su_record", "sc_client"}

\* C37: a thread holds the lock only inside a "with" block, so not while it
\* reads the player, calls the Sink, returns, raises or waits; and a thread
\* waiting for the lock gets it.
C37_LockReleasedAndAcquired ==
    /\ [](\A t \in Threads : lock = t <=> InLock(t))
    /\ \A t \in Threads : AtLock(t) ~> lock = t

\* C37 witness: the poll thread waits to commit its report while the host
\* thread is inside end_session with the lock
C37_Witness ==
    /\ pc["poller"] = "su_relock" /\ att["poller"].sink = "ok"
    /\ pc["host"] = "stop_end" /\ lock = "host"

====
